---- MODULE Spec2Model ----
(***************************************************************************)
(* Chunk lifecycle of minecone2: the task scheduler (game/parallel.rs),    *)
(* the chunk store and its load/unload jobs (game/world.rs), the load      *)
(* count of a LoadedChunk (game/chunk.rs) and the dirty render zones       *)
(* (game/render_zone.rs).                                                  *)
(*                                                                         *)
(* Threads are the worker threads spawned by parallel::init and the single *)
(* simulation thread that calls into World.  Every worker step is one      *)
(* access to shared state (a DashMap shard lock, an atomic, a queue).      *)
(***************************************************************************)
EXTENDS Integers, Sequences, FiniteSets, Bags, TLC

(* ------------------------------ bounds -------------------------------- *)

\* chunk x coordinates used by the calls are 0..MaxX; y and z are 0
MaxX == 1
\* number of load_chunks / unload_chunks calls in a run that never polls
MaxCalls == 3
\* number of load_chunks / unload_chunks calls in a run that polls, with
\* all workers
MaxCallsOnePoll == 1
\* number of load_chunks / unload_chunks calls in a run that polls, with a
\* single worker
MaxCallsPolled == 2
\* number of poll_completed_tasks calls in a run that polls
MaxPolls == 1
\* number of shards of the DashMap
NumShards == 2
\* edge length of a chunk in blocks (CHUNK_SIZE, scaled down): block
\* coordinates along an axis of a chunk, and slice indices per face
ChunkEdge == 2
\* number of set_block / mesh_update_adjacent / render_zone_mesh calls
MaxEdits == 1
\* number of blocks dug in a run that digs
MaxDigs == 2
\* a player's render distance in chunks on every axis (10, 5, 10 in
\* Player::new, scaled down)
RenderDistance == 1
\* number of set_player_position calls in a run that moves the player on
\* one axis, and the polls of such a run
MaxMoves == 3
\* number of poll_completed_tasks calls in a run with one
\* set_player_position call
MaxMovePolls == 2

\* mesh_update_inner calls a thread makes in a row with one visit map
MaxRemesh == 3

\* calls made on one UpdatedRenderZones
MaxMarks == 2

\* width in bits of the integers that stand for i32 (32, scaled down)
I32Bits == 8
\* conversions made in a run that converts coordinates
MaxConverts == 1

\* positions are multiples of 1 / SubBlock of a block edge
SubBlock == 2
\* block_raycast calls made in a run that casts rays
MaxRays == 1

\* set_player_position calls made back and forth with every worker running
MaxRapidMoves == 2

\* set_block calls made while a worker rebuilds the mesh of the chunk
MaxRaceEdits == 1

Workers == {"w1", "w2"}
SimThread == "sim"
NoThread == "none"
Threads == Workers \cup {SimThread}

(* ------------------------ program constants --------------------------- *)

RENDER_ZONE_SIZE == 8

\* BlockFace::iter() order
Faces == <<"XPos", "XNeg", "YPos", "YNeg", "ZPos", "ZNeg">>

(* --------------------------- spatial types ---------------------------- *)

ChunkPos(x, y, z) == <<x, y, z>>

Coords == {ChunkPos(x, 0, 0) : x \in 0..MaxX}

\* the half-open boxes [min, max) the calls are made with
Boxes == {<<ChunkPos(0, 0, 0), ChunkPos(b, 1, 1)>> : b \in 1..(MaxX + 1)}

\* for x in min.x..max.x { for y in min.y..max.y { for z in min.z..max.z
BoxChunks(min, max) ==
    LET nx == max[1] - min[1]
        ny == max[2] - min[2]
        nz == max[3] - min[3]
    IN  IF nx <= 0 \/ ny <= 0 \/ nz <= 0 THEN <<>>
        ELSE [i \in 1..(nx * ny * nz) |->
                ChunkPos(min[1] + ((i - 1) \div (ny * nz)),
                         min[2] + (((i - 1) \div nz) % ny),
                         min[3] + ((i - 1) % nz))]

SeqToSet(s) == {s[i] : i \in DOMAIN s}

\* Rust's integer division truncates toward zero
RustDiv(a, b) == IF a >= 0 THEN a \div b ELSE -((-a) \div b)

BlockPos(x, y, z) == <<x, y, z>>

\* i32, scaled down to I32Bits bits
I32_MIN == -(2 ^ (I32Bits - 1))
I32_MAX == (2 ^ (I32Bits - 1)) - 1
\* the value an i32 operation stores when overflow wraps
wrapping(value) == ((value - I32_MIN) % (2 ^ I32Bits)) + I32_MIN
\* the operation's exact result does not fit an i32
overflows(value) == value < I32_MIN \/ value > I32_MAX

\* impl From<BlockPos> for ChunkPos, where overflow wraps
as_chunk_pos(block_pos) ==
    [i \in 1..3 |-> IF block_pos[i] >= 0 THEN RustDiv(block_pos[i], ChunkEdge)
                    ELSE RustDiv(wrapping(block_pos[i] - (ChunkEdge - 1)), ChunkEdge)]
\* elem - (CHUNK_SIZE - 1) overflows on some axis
as_chunk_pos_overflows(block_pos) ==
    \E i \in 1..3 : block_pos[i] < 0 /\ overflows(block_pos[i] - (ChunkEdge - 1))

\* Rust's % takes the sign of the dividend
RustRem(a, b) == a - b * RustDiv(a, b)

\* BlockPos::as_chunk_local
as_chunk_local(block_pos) ==
    [i \in 1..3 |-> IF block_pos[i] >= 0 THEN RustRem(block_pos[i], ChunkEdge)
                    ELSE ChunkEdge + RustRem(block_pos[i] + 1, ChunkEdge) - 1]

is_chunk_local_UpperOnly(block_pos) == \A i \in 1..3 : block_pos[i] < ChunkEdge

\* BlockPos::is_chunk_local
is_chunk_local(block_pos) ==
    \A i \in 1..3 : block_pos[i] >= 0 /\ block_pos[i] < ChunkEdge

\* impl From<ChunkPos> for BlockPos, where overflow wraps
as_block_pos(chunk_pos) == [i \in 1..3 |-> wrapping(chunk_pos[i] * ChunkEdge)]
\* chunk_pos.0 * CHUNK_SIZE overflows on some axis
as_block_pos_overflows(chunk_pos) == \E i \in 1..3 : overflows(chunk_pos[i] * ChunkEdge)

\* impl Add for BlockPos / ChunkPos
Add(a, b) == [i \in 1..3 |-> a[i] + b[i]]
\* impl Sub for BlockPos / ChunkPos
Sub(a, b) == [i \in 1..3 |-> a[i] - b[i]]

\* BlockFace::block_pos_offset
block_pos_offset(face) ==
    CASE face = "XPos" -> BlockPos(1, 0, 0)
      [] face = "XNeg" -> BlockPos(-1, 0, 0)
      [] face = "YPos" -> BlockPos(0, 1, 0)
      [] face = "YNeg" -> BlockPos(0, -1, 0)
      [] face = "ZPos" -> BlockPos(0, 0, 1)
      [] face = "ZNeg" -> BlockPos(0, 0, -1)

\* BlockPos::get_face_component
get_face_component(block_pos, face) ==
    CASE face \in {"XPos", "XNeg"} -> block_pos[1]
      [] face \in {"YPos", "YNeg"} -> block_pos[2]
      [] face \in {"ZPos", "ZNeg"} -> block_pos[3]

\* the blocks the simulation thread edits: those of the chunks of Coords
Blocks == {BlockPos(x, 0, 0) : x \in 0..((MaxX + 1) * ChunkEdge - 1)}

(* ------------------------------- tasks -------------------------------- *)

ChunkMesh(chunk) == [kind |-> "ChunkMesh", chunk |-> chunk]
ChunkMeshFace(min_chunk, max_chunk, face) ==
    [kind |-> "ChunkMeshFace", min_chunk |-> min_chunk, max_chunk |-> max_chunk, face |-> face]
GenerateChunk(chunk) == [kind |-> "GenerateChunk", chunk |-> chunk]
UnloadChunks(min_chunk, max_chunk) ==
    [kind |-> "UnloadChunks", min_chunk |-> min_chunk, max_chunk |-> max_chunk]
NoTask == [kind |-> "None"]

\* Option<ChunkMeshFaceData>
NoMeshFaceTask == [kind |-> "None"]
ChunkMeshFaceData(min_chunk, max_chunk, face) ==
    [kind |-> "Some", min_chunk |-> min_chunk, max_chunk |-> max_chunk, face |-> face]
into_task(data) == ChunkMeshFace(data.min_chunk, data.max_chunk, data.face)

\* the follow-ups a call is made with
FollowUps == {NoMeshFaceTask,
              ChunkMeshFaceData(ChunkPos(0, 0, 0), ChunkPos(MaxX + 1, 1, 1), "XPos")}

ChunkLoadJob(min_chunk, max_chunk, remaining_chunks, mesh_face_task) ==
    [min_chunk |-> min_chunk, max_chunk |-> max_chunk,
     remaining_chunks |-> remaining_chunks, mesh_face_task |-> mesh_face_task]

contains_chunk(job, chunk) ==
    /\ chunk[1] >= job.min_chunk[1]
    /\ chunk[2] >= job.min_chunk[2]
    /\ chunk[3] >= job.min_chunk[3]
    /\ chunk[1] < job.max_chunk[1]
    /\ chunk[2] < job.max_chunk[2]
    /\ chunk[3] < job.max_chunk[3]

(* ---------------------------- render zones ---------------------------- *)

get_render_zone_of_chunk_Truncating(chunk) ==
    [i \in 1..3 |-> RENDER_ZONE_SIZE * RustDiv(chunk[i], RENDER_ZONE_SIZE)]

get_render_zone_of_chunk(chunk) ==
    [i \in 1..3 |->
        RENDER_ZONE_SIZE *
            (IF chunk[i] >= 0 THEN RustDiv(chunk[i], RENDER_ZONE_SIZE)
             ELSE RustDiv(chunk[i] - RENDER_ZONE_SIZE + 1, RENDER_ZONE_SIZE))]

mark_chunk(zones, chunk) == zones \cup {get_render_zone_of_chunk(chunk)}

\* (min..=max).step_by(RENDER_ZONE_SIZE)
StepRange(lo, hi) == {v \in lo..hi : (v - lo) % RENDER_ZONE_SIZE = 0}

mark_chunk_zone_MinCorner(zones, min_chunk, max_chunk) ==
    zones \cup {get_render_zone_of_chunk(min_chunk)}

mark_chunk_zone(zones, min_chunk, max_chunk) ==
    LET min_render_zone == get_render_zone_of_chunk(min_chunk)
        max_render_zone == get_render_zone_of_chunk([i \in 1..3 |-> max_chunk[i] - 1])
    IN  zones \cup {ChunkPos(x, y, z) :
                       x \in StepRange(min_render_zone[1], max_render_zone[1]),
                       y \in StepRange(min_render_zone[2], max_render_zone[2]),
                       z \in StepRange(min_render_zone[3], max_render_zone[3])}

(* ------------------------------- chunks ------------------------------- *)

\* the surface height get_height_noise gives: level ground
TerrainHeight == 0

\* the closure of WorldGenerator::generate_chunk: get_block_at_depth(block.y
\* - height) of a biome whose ground is stone
block_fn(block) == IF block[2] - TerrainHeight > 0 THEN "Air" ELSE "Stone"

\* Block::is_air and BlockTrait::is_translucent of Air and Stone
is_air(block) == block = "Air"
is_translucent(block) == block = "Air"

\* the block grid a chunk holds: the generator's output for a position,
\* and the blocks written over it since, by chunk-local position
Generated(position) == [gen |-> position, set |-> <<>>]

\* the blocks set_block is called with (client::physics_update digs: Air)
EditBlocks == {"Air"}

\* the chunk-local block positions: as_indicies of 0..CHUNK_SIZE per axis
LocalPositions ==
    {BlockPos(x, y, z) : x \in 0..(ChunkEdge - 1), y \in 0..(ChunkEdge - 1),
                         z \in 0..(ChunkEdge - 1)}

\* Chunk::get_block: self.blocks.read()[x][y][z]
Chunk_get_block(blocks, block_pos) ==
    IF block_pos \in DOMAIN blocks.set THEN blocks.set[block_pos]
    ELSE block_fn(Add(block_pos, as_block_pos(blocks.gen)))

Chunk_set_block_Fill(blocks, block_pos, block) ==
    [blocks EXCEPT !.set = [k \in LocalPositions |-> block]]

\* Chunk::set_block: self.blocks.write()[x][y][z] = block
Chunk_set_block(blocks, block_pos, block) ==
    [blocks EXCEPT !.set = [k \in DOMAIN @ \cup {block_pos} |->
                               IF k = block_pos THEN block ELSE @[k]]]

\* for face in BlockFace::iter() { for i in 0..CHUNK_SIZE {
\* the face-slices of a chunk's mesh cache
Slices == [k \in 1..(Len(Faces) * ChunkEdge) |->
              <<Faces[((k - 1) \div ChunkEdge) + 1], (k - 1) % ChunkEdge>>]
\* a slice's quad list is empty until it is built
EmptyMesh == [s \in SeqToSet(Slices) |-> <<>>]

\* Chunk::with_block: the block at a position relative to the chunk, in
\* the chunk itself or in the loaded chunk next to it
with_block(map, chunk_position, block) ==
    IF is_chunk_local(block)
    THEN [kind |-> "Some", block |-> Chunk_get_block(map[chunk_position].blocks, block)]
    ELSE LET position == Add(as_chunk_pos(block), chunk_position) IN
         IF position \in DOMAIN map
         THEN [kind |-> "Some",
               block |-> Chunk_get_block(map[position].blocks, as_chunk_local(block))]
         ELSE [kind |-> "None"]

\* VisitedBlockMap::get_block_pos
get_block_pos(face, coord3, x, y) ==
    CASE face \in {"XPos", "XNeg"} -> BlockPos(coord3, x, y)
      [] face \in {"YPos", "YNeg"} -> BlockPos(x, coord3, y)
      [] face \in {"ZPos", "ZNeg"} -> BlockPos(x, y, coord3)

\* mesh_update_inner's first pass, per position (x, y) of the slice: the
\* block there, and is_translucent of the block one step out of the face
\* (with_block), also for the positions around the slice
slice_blocks(map, chunk_position, face, index) ==
    [x \in 0..(ChunkEdge - 1), y \in 0..(ChunkEdge - 1) |->
        Chunk_get_block(map[chunk_position].blocks, get_block_pos(face, index, x, y))]

slice_adjacent(map, chunk_position, face, index) ==
    [x \in -1..ChunkEdge, y \in -1..ChunkEdge |->
        with_block(map, chunk_position,
                   Add(get_block_pos(face, index, x, y), block_pos_offset(face)))]

\* visit_map.set_visited(block_pos, ..) of the first pass
set_visited(block, adjacent) ==
    IF is_air(block) THEN TRUE
    ELSE IF adjacent.kind = "Some" THEN ~is_translucent(adjacent.block)
    ELSE TRUE

\* the closure is_occluded_by
is_occluded_by(adjacent) ==
    IF adjacent.kind = "Some" /\ ~is_translucent(adjacent.block) THEN 1 ELSE 0

set_occlusion_level_Sum(tl, tr, bl, br) == tl + tr + bl + br

\* visit_map.set_occlusion_level(x, y, ..) of the second pass
set_occlusion_level(tl, tr, bl, br) ==
    IF (tl = 1 /\ br = 1) \/ (tr = 1 /\ bl = 1) THEN 3 ELSE tl + tr + bl + br

\* VisitedBlockMap::new
VisitedBlockMap_new ==
    [face |-> "XPos",
     coord3 |-> 0,
     visited_blocks |-> [x \in 0..(ChunkEdge - 1), y \in 0..(ChunkEdge - 1) |-> FALSE],
     vertex_occlusion |-> [x \in 0..ChunkEdge, y \in 0..ChunkEdge |-> 0]]

mesh_passes_SkipsAir(visit_map, map, chunk_position, face, index) ==
    LET block_at == slice_blocks(map, chunk_position, face, index)
        adjacent == slice_adjacent(map, chunk_position, face, index)
    IN  [face |-> face,
         coord3 |-> index,
         block_position |-> as_block_pos(chunk_position),
         block_at |-> block_at,
         visited_blocks |->
             [p \in DOMAIN visit_map.visited_blocks |->
                 IF p[1] \in 0..(ChunkEdge - 1) /\ p[2] \in 0..(ChunkEdge - 1)
                      /\ ~is_air(block_at[p])
                 THEN set_visited(block_at[p], adjacent[p])
                 ELSE visit_map.visited_blocks[p]],
         vertex_occlusion |-> visit_map.vertex_occlusion]

\* the visit map a thread passes to mesh_update_inner, once
\* set_face_coord and the first two passes are over: the entries their
\* loops write are overwritten, any other entry is as it was passed in
\* (block_at and block_position are the chunk's, kept at hand)
mesh_passes(visit_map, map, chunk_position, face, index) ==
    LET block_at == slice_blocks(map, chunk_position, face, index)
        adjacent == slice_adjacent(map, chunk_position, face, index)
    IN  [face |-> face,
         coord3 |-> index,
         block_position |-> as_block_pos(chunk_position),
         block_at |-> block_at,
         visited_blocks |->
             [p \in DOMAIN visit_map.visited_blocks |->
                 IF p[1] \in 0..(ChunkEdge - 1) /\ p[2] \in 0..(ChunkEdge - 1)
                 THEN set_visited(block_at[p], adjacent[p])
                 ELSE visit_map.visited_blocks[p]],
         vertex_occlusion |->
             [p \in DOMAIN visit_map.vertex_occlusion |->
                 IF p[1] \in 0..ChunkEdge /\ p[2] \in 0..ChunkEdge
                 THEN set_occlusion_level(is_occluded_by(adjacent[p[1] - 1, p[2] - 1]),
                                          is_occluded_by(adjacent[p[1], p[2] - 1]),
                                          is_occluded_by(adjacent[p[1] - 1, p[2]]),
                                          is_occluded_by(adjacent[p[1], p[2]]))
                 ELSE visit_map.vertex_occlusion[p]]]

\* the VisitedBlockMap once both passes of mesh_update_inner are over,
\* when the map passed in is a new one
VisitedBlockMap(map, chunk_position, face, index) ==
    mesh_passes(VisitedBlockMap_new, map, chunk_position, face, index)

\* VisitedBlockMap::get_occlusion_data
get_occlusion_data(visit_map, x, y) ==
    [tl |-> visit_map.vertex_occlusion[x, y + 1],
     tr |-> visit_map.vertex_occlusion[x + 1, y + 1],
     bl |-> visit_map.vertex_occlusion[x, y],
     br |-> visit_map.vertex_occlusion[x + 1, y]]

\* the test of the loop that widens the region begun at (x, y): not
\* visited, same block type, occlusion_level_matches
widens(visit_map, x, y, to) ==
    /\ ~visit_map.visited_blocks[x, to]
    /\ visit_map.block_at[x, to] = visit_map.block_at[x, y]
    /\ get_occlusion_data(visit_map, x, to) = get_occlusion_data(visit_map, x, y)

\* the width the loop ends with
region_width(visit_map, x, y) ==
    CHOOSE width \in 1..(ChunkEdge - y) :
        /\ \A k \in 1..(width - 1) : widens(visit_map, x, y, y + k)
        /\ y + width = ChunkEdge \/ ~widens(visit_map, x, y, y + width)

\* VisitedBlockMap::get_block_pos_offset of the block at (x, y)
get_block_pos_offset(visit_map, x, y, x_offset, y_offset) ==
    get_block_pos(visit_map.face, visit_map.coord3, x + x_offset, y + y_offset)

\* BlockFaceMesh::from_cube_corners for the region begun at (x, y): the
\* loop has widened it along y (get_block_pos_offset(block_pos, 0, width));
\* the far corner passed is get_block_pos_offset(block_pos, width - 1,
\* height - 1), with height = 1
from_cube_corners(visit_map, x, y, width) ==
    [face |-> visit_map.face,
     texture_index |-> visit_map.block_at[x, y],
     from |-> Add(get_block_pos(visit_map.face, visit_map.coord3, x, y),
                  visit_map.block_position),
     to |-> Add(get_block_pos_offset(visit_map, x, y, width - 1, 0),
                visit_map.block_position),
     occlusion |-> get_occlusion_data(visit_map, x, y)]

\* the third pass: for x in 0..CHUNK_SIZE { while y < CHUNK_SIZE { .. } }
RECURSIVE greedy_mesh(_, _, _)
greedy_mesh(visit_map, x, y) ==
    IF x = ChunkEdge THEN <<>>
    ELSE IF y >= ChunkEdge THEN greedy_mesh(visit_map, x + 1, 0)
    ELSE IF visit_map.visited_blocks[x, y] THEN greedy_mesh(visit_map, x, y + 1)
    ELSE LET width == region_width(visit_map, x, y) IN
         <<from_cube_corners(visit_map, x, y, width)>>
             \o greedy_mesh(visit_map, x, y + width)

\* Chunk::mesh_update_inner: the quad list of the slice `index` of `face`
mesh_update_inner(map, chunk_position, face, index) ==
    greedy_mesh(VisitedBlockMap(map, chunk_position, face, index), 0, 0)

\* the positions the widening loop of the third pass sets visited
RECURSIVE greedy_visited(_, _, _)
greedy_visited(visit_map, x, y) ==
    IF x = ChunkEdge THEN {}
    ELSE IF y >= ChunkEdge THEN greedy_visited(visit_map, x + 1, 0)
    ELSE IF visit_map.visited_blocks[x, y] THEN greedy_visited(visit_map, x, y + 1)
    ELSE LET width == region_width(visit_map, x, y) IN
         {<<x, y + k>> : k \in 1..(width - 1)} \cup greedy_visited(visit_map, x, y + width)

\* Chunk::mesh_update_inner called with the visit map the caller has at
\* hand: the quad list of the slice, and the visit map as the call leaves it
mesh_update_inner_with(visit_map, map, chunk_position, face, index) ==
    LET passed == mesh_passes(visit_map, map, chunk_position, face, index)
        widened == greedy_visited(passed, 0, 0)
    IN  [quads |-> greedy_mesh(passed, 0, 0),
         visit_map |-> [face |-> passed.face,
                        coord3 |-> passed.coord3,
                        visited_blocks |-> [p \in DOMAIN passed.visited_blocks |->
                                               passed.visited_blocks[p] \/ p \in widened],
                        vertex_occlusion |-> passed.vertex_occlusion]]

is_positive_face(face) == face \in {"XPos", "YPos", "ZPos"}

\* WorldGenerator::generate_chunk -> LoadedChunk::new(Chunk::new(..))
generate_chunk(position) ==
    [load_count |-> 0,
     blocks |-> Generated(position),
     blocks_guard |-> "none",
     chunk_mesh |-> EmptyMesh,
     mesh_writer |-> NoThread]

\* AtomicU64::fetch_add(1) / fetch_sub(1): the stored value.  A load count
\* v stands for the u64 value v mod 2^64, so that -1 is u64::MAX.
fetch_add_Two(count) == count + 2
fetch_add(count) == count + 1
fetch_sub_Two(count) == count - 2
fetch_sub(count) == count - 1

ShardOf(chunk) == (chunk[1] + chunk[2] + chunk[3]) % NumShards
Shards == 0..(NumShards - 1)

VARIABLES
    chunks,                 \* World::chunks: ChunkPos -> LoadedChunk
    shard_lock,             \* the RwLock of each DashMap shard
    TASK_QUEUE,             \* parallel::TASK_QUEUE
    COMPLETED_TASKS,        \* parallel::COMPLETED_TASKS
    chunk_load_jobs,        \* World::chunk_load_jobs
    chunk_unload_jobs,      \* World::chunk_unload_jobs
    updated_render_zones,   \* Client::updated_render_zones
    worker,                 \* each task_runner thread: position and locals
    sim,                    \* the simulation thread: position and locals
    overflow_checks,        \* whether the build panics on integer overflow
    budget,                 \* the calls the simulation thread may still make
    submitted,              \* history: bag of the tasks given to run_task
    pushed,                 \* history: bag of the tasks pushed as completed
    calls,                  \* history: the load_chunks / unload_chunks calls
    players                 \* World::players: PlayerId -> Player

vars == <<chunks, shard_lock, TASK_QUEUE, COMPLETED_TASKS, chunk_load_jobs,
          chunk_unload_jobs, updated_render_zones, worker, sim,
          overflow_checks, budget, submitted, pushed, calls, players>>

(* ------------------------------- locks -------------------------------- *)

NoLock == [writer |-> NoThread, readers |-> [t \in Threads |-> 0]]

\* DashMap::get / Ref: a shared lock on the key's shard
CanRead(chunk) == shard_lock[ShardOf(chunk)].writer = NoThread
AcquireRead(locks, chunk, t) == [locks EXCEPT ![ShardOf(chunk)].readers[t] = @ + 1]
ReleaseRead(locks, chunk, t) == [locks EXCEPT ![ShardOf(chunk)].readers[t] = @ - 1]

\* DashMap::entry / remove: the exclusive lock on the key's shard
CanWrite(chunk) ==
    /\ shard_lock[ShardOf(chunk)].writer = NoThread
    /\ \A t \in Threads : shard_lock[ShardOf(chunk)].readers[t] = 0
AcquireWrite(locks, chunk, t) == [locks EXCEPT ![ShardOf(chunk)].writer = t]
ReleaseWrite(locks, chunk, t) == [locks EXCEPT ![ShardOf(chunk)].writer = NoThread]

\* Chunk::mesh_update_inner: self.chunk_mesh.write(), then the slice's quad
\* list is cleared
LockMesh(map, chunk, slice, t) ==
    [map EXCEPT ![chunk].mesh_writer = t, ![chunk].chunk_mesh[slice] = <<>>]

\* Chunk::mesh_update_inner: the quads of the slice are pushed and the write
\* guard is dropped
BuildMesh(map, chunk, slice) ==
    [map EXCEPT ![chunk].mesh_writer = NoThread,
                ![chunk].chunk_mesh[slice] = mesh_update_inner(map, chunk, slice[1], slice[2])]

Insert(map, key, value) == [k \in DOMAIN map \cup {key} |-> IF k = key THEN value ELSE map[k]]
Remove(map, key) == [k \in DOMAIN map \ {key} |-> map[k]]

(* ------------------------------ Init ---------------------------------- *)

\* the runs explored: parallel::init(world, num_tasks) spawns the workers
\* of `workers`; the simulation thread makes up to `calls` load_chunks /
\* unload_chunks calls, with follow-ups when `follow`, up to `polls`
\* poll_completed_tasks calls and up to `edits` set_block,
\* mesh_update_adjacent and render_zone_mesh calls
Budgets ==
    {[calls |-> MaxCalls, polls |-> 0, edits |-> 0, follow |-> FALSE, workers |-> Workers],
     [calls |-> MaxCallsOnePoll, polls |-> MaxPolls, edits |-> 0, follow |-> TRUE,
      workers |-> Workers],
     [calls |-> MaxCallsPolled, polls |-> MaxPolls, edits |-> 0, follow |-> TRUE,
      workers |-> {"w1"}],
     [calls |-> MaxCallsOnePoll, polls |-> MaxPolls, edits |-> MaxEdits, follow |-> FALSE,
      workers |-> {"w1"}]}

NoPre == [present |-> FALSE]
\* a worker's position in task_runner / execute_task and its locals; pre,
\* snap, alone and skipped are history: the entry GenerateChunk found, the
\* store when an UnloadChunks task was taken, whether no other thread has
\* been at work on the store since, and the absent chunks passed over
\* the locals of mesh_update_inner, outside a call followed step by step
NoMesh == [op |-> "none"]
IdleWorker == [pc |-> "idle", task |-> NoTask, idx |-> 0, target |-> ChunkPos(0, 0, 0),
               slices |-> <<>>, pre |-> NoPre, snap |-> <<>>, alone |-> FALSE,
               skipped |-> 0, mesh |-> NoMesh]

\* the simulation thread's position inside a World method and its locals;
\* ret is the last method that returned, with its result
NoRet == [op |-> "none"]
\* the locals of block_raycast, outside a call
NoRay == [op |-> "none"]
IdleSim == [pc |-> "idle", block |-> BlockPos(0, 0, 0), value |-> "Air",
            target |-> ChunkPos(0, 0, 0), slices |-> <<>>, idx |-> 0, out |-> <<>>,
            accessor |-> "none", visit_map |-> VisitedBlockMap_new, ray |-> NoRay,
            ret |-> NoRet]

Init ==
    /\ chunks = <<>>
    /\ shard_lock = [s \in Shards |-> NoLock]
    /\ TASK_QUEUE = <<>>
    /\ COMPLETED_TASKS = <<>>
    /\ chunk_load_jobs = <<>>
    /\ chunk_unload_jobs = <<>>
    /\ updated_render_zones = {}
    /\ worker = [w \in Workers |-> IdleWorker]
    /\ sim = IdleSim
    /\ overflow_checks = "unknown"
    /\ budget \in Budgets
    /\ submitted = EmptyBag
    /\ pushed = EmptyBag
    /\ calls = <<>>
    /\ players = <<>>

(* --------------------------- task_runner ------------------------------ *)

FirstStep_PushAtOnce(task) ==
    CASE task.kind = "ChunkMesh" -> "mesh_get"
      [] task.kind = "ChunkMeshFace" -> "face_get"
      [] task.kind = "GenerateChunk" -> "gen_entry"
      [] task.kind = "UnloadChunks" -> "push"

\* the first step of execute_task's match arm for a task
FirstStep(task) ==
    CASE task.kind = "ChunkMesh" -> "mesh_get"
      [] task.kind = "ChunkMeshFace" -> "face_get"
      [] task.kind = "GenerateChunk" -> "gen_entry"
      [] task.kind = "UnloadChunks" -> "unload_get"

\* TASK_QUEUE.steal() returning Steal::Success(task)
Steal(w) ==
    /\ w \in budget.workers
    /\ worker[w].pc = "idle"
    /\ TASK_QUEUE # <<>>
    /\ worker' = [v \in Workers |->
                      IF v = w
                      THEN [IdleWorker EXCEPT
                               !.pc = FirstStep(Head(TASK_QUEUE)),
                               !.task = Head(TASK_QUEUE),
                               !.idx = 1,
                               !.snap = IF Head(TASK_QUEUE).kind = "UnloadChunks"
                                        THEN chunks ELSE <<>>,
                               !.alone = /\ Head(TASK_QUEUE).kind = "UnloadChunks"
                                         /\ sim.pc \in {"idle", "poll"}
                                         /\ \A u \in Workers \ {w} :
                                                worker[u].pc \in {"idle", "panicked"}]
                      ELSE [worker[v] EXCEPT !.alone = FALSE]]
    /\ TASK_QUEUE' = Tail(TASK_QUEUE)
    /\ UNCHANGED <<chunks, shard_lock, COMPLETED_TASKS, chunk_load_jobs, chunk_unload_jobs,
                   updated_render_zones, sim, overflow_checks, budget, submitted, pushed, calls,
                   players>>

\* Steal::Empty => thread::sleep, Steal::Retry => continue
StealEmpty(w) ==
    /\ w \in budget.workers
    /\ worker[w].pc = "idle"
    /\ TASK_QUEUE = <<>>
    /\ UNCHANGED vars

PushCompleted_Twice(w, next_pc) ==
    /\ COMPLETED_TASKS' = Append(Append(COMPLETED_TASKS, worker[w].task), worker[w].task)
    /\ pushed' = pushed (+) SetToBag({worker[w].task}) (+) SetToBag({worker[w].task})
    /\ worker' = [worker EXCEPT ![w] = IF next_pc = "idle" THEN IdleWorker
                                      ELSE [@ EXCEPT !.pc = next_pc]]

\* COMPLETED_TASKS.push(task)
PushCompleted(w, next_pc) ==
    /\ COMPLETED_TASKS' = Append(COMPLETED_TASKS, worker[w].task)
    /\ pushed' = pushed (+) SetToBag({worker[w].task})
    /\ worker' = [worker EXCEPT ![w] = IF next_pc = "idle" THEN IdleWorker
                                      ELSE [@ EXCEPT !.pc = next_pc]]

\* Task::GenerateChunk: world.chunks.entry(chunk).or_insert_with(generate_chunk)
GenEntry(w) ==
    LET chunk == worker[w].task.chunk IN
    /\ worker[w].pc = "gen_entry"
    /\ CanWrite(chunk)
    /\ shard_lock' = AcquireWrite(shard_lock, chunk, w)
    /\ chunks' = IF chunk \in DOMAIN chunks THEN chunks
                 ELSE Insert(chunks, chunk, generate_chunk(chunk))
    /\ worker' = [worker EXCEPT ![w].pc = "gen_inc",
                                ![w].pre = IF chunk \in DOMAIN chunks
                                           THEN [present |-> TRUE,
                                                 load_count |-> chunks[chunk].load_count,
                                                 blocks |-> chunks[chunk].blocks]
                                           ELSE NoPre]
    /\ UNCHANGED <<TASK_QUEUE, COMPLETED_TASKS, chunk_load_jobs, chunk_unload_jobs,
                   updated_render_zones, sim, overflow_checks, budget, submitted, pushed, calls,
                   players>>

\* chunk.inc_load_count()
GenInc(w) ==
    LET chunk == worker[w].task.chunk IN
    /\ worker[w].pc = "gen_inc"
    /\ chunks' = [chunks EXCEPT ![chunk].load_count = fetch_add(@)]
    /\ worker' = [worker EXCEPT ![w].pc = "gen_push"]
    /\ UNCHANGED <<shard_lock, TASK_QUEUE, COMPLETED_TASKS, chunk_load_jobs, chunk_unload_jobs,
                   updated_render_zones, sim, overflow_checks, budget, submitted, calls, pushed,
                   players>>

\* COMPLETED_TASKS.push(task), with the RefMut of the entry still alive
GenPush(w) ==
    /\ worker[w].pc = "gen_push"
    /\ PushCompleted(w, "gen_drop")
    /\ UNCHANGED <<chunks, shard_lock, TASK_QUEUE, chunk_load_jobs, chunk_unload_jobs,
                   updated_render_zones, sim, overflow_checks, budget, submitted, calls,
                   players>>

\* end of the match arm: the RefMut is dropped
GenDrop(w) ==
    /\ worker[w].pc = "gen_drop"
    /\ shard_lock' = ReleaseWrite(shard_lock, worker[w].task.chunk, w)
    /\ worker' = [worker EXCEPT ![w] = IdleWorker]
    /\ UNCHANGED <<chunks, TASK_QUEUE, COMPLETED_TASKS, chunk_load_jobs, chunk_unload_jobs,
                   updated_render_zones, sim, overflow_checks, budget, submitted, pushed, calls,
                   players>>

\* Task::UnloadChunks: world.chunks.get(&position) for the next position
UnloadGet(w) ==
    LET box == BoxChunks(worker[w].task.min_chunk, worker[w].task.max_chunk)
        idx == worker[w].idx
    IN
    /\ worker[w].pc = "unload_get"
    /\ IF idx > Len(box)
       THEN /\ worker' = [worker EXCEPT ![w].pc = "push"]
            /\ UNCHANGED shard_lock
       ELSE /\ CanRead(box[idx])
            /\ IF box[idx] \in DOMAIN chunks
               THEN /\ shard_lock' = AcquireRead(shard_lock, box[idx], w)
                    /\ worker' = [worker EXCEPT ![w].pc = "unload_dec", ![w].target = box[idx]]
               ELSE /\ worker' = [worker EXCEPT ![w].idx = idx + 1, ![w].skipped = @ + 1]
                    /\ UNCHANGED shard_lock
    /\ UNCHANGED <<chunks, TASK_QUEUE, COMPLETED_TASKS, chunk_load_jobs, chunk_unload_jobs,
                   updated_render_zones, sim, overflow_checks, budget, submitted, pushed, calls,
                   players>>

UnloadDecOutcome_KeepsChunk(previous, checks) ==
    IF previous = 0 THEN (IF checks = "on" THEN "panic" ELSE "next")
    ELSE "next"

\* what `if loaded_chunk.dec_load_count() == 0` does next, from the value
\* fetch_sub returned: "panic" when `previous - 1` overflows in a build with
\* overflow checks, "remove" when the result is 0, else "next"
UnloadDecOutcome(previous, checks) ==
    IF previous = 0 THEN (IF checks = "on" THEN "panic" ELSE "next")
    ELSE IF previous - 1 = 0 THEN "remove"
    ELSE "next"

\* the build is debug ("on": overflow panics) or release ("off": overflow
\* wraps); which one is left open until the first overflow
BuildModes(previous) ==
    IF previous = 0 /\ overflow_checks = "unknown" THEN {"on", "off"} ELSE {overflow_checks}

\* loaded_chunk.dec_load_count(), then the Ref is dropped
UnloadDec(w) ==
    LET position == worker[w].target IN
    /\ worker[w].pc = "unload_dec"
    /\ \E checks \in BuildModes(chunks[position].load_count) :
          LET outcome == UnloadDecOutcome(chunks[position].load_count, checks) IN
          /\ overflow_checks' = checks
          /\ worker' = [worker EXCEPT ![w].pc = CASE outcome = "panic" -> "panicked"
                                                  [] outcome = "remove" -> "unload_remove"
                                                  [] outcome = "next" -> "unload_get",
                                      ![w].idx = IF outcome = "next" THEN @ + 1 ELSE @]
    /\ chunks' = [chunks EXCEPT ![position].load_count = fetch_sub(@)]
    /\ shard_lock' = ReleaseRead(shard_lock, position, w)
    /\ UNCHANGED <<TASK_QUEUE, COMPLETED_TASKS, chunk_load_jobs, chunk_unload_jobs,
                   updated_render_zones, sim, budget, submitted, pushed, calls, players>>

\* world.chunks.remove(&position)
UnloadRemove(w) ==
    LET position == worker[w].target IN
    /\ worker[w].pc = "unload_remove"
    /\ CanWrite(position)
    /\ chunks' = Remove(chunks, position)
    /\ worker' = [worker EXCEPT ![w].pc = "unload_get", ![w].idx = @ + 1]
    /\ UNCHANGED <<shard_lock, TASK_QUEUE, COMPLETED_TASKS, chunk_load_jobs, chunk_unload_jobs,
                   updated_render_zones, sim, overflow_checks, budget, submitted, pushed, calls,
                   players>>

\* Task::ChunkMesh: world.chunks.get(&chunk).map(|chunk| chunk_mesh_update())
MeshGet(w) ==
    LET chunk == worker[w].task.chunk IN
    /\ worker[w].pc = "mesh_get"
    /\ CanRead(chunk)
    /\ IF chunk \in DOMAIN chunks
       THEN /\ shard_lock' = AcquireRead(shard_lock, chunk, w)
            /\ worker' = [worker EXCEPT ![w].pc = "mesh_lock", ![w].target = chunk,
                                        ![w].slices = Slices]
       ELSE /\ worker' = [worker EXCEPT ![w].pc = "push", ![w].skipped = @ + 1]
            /\ UNCHANGED shard_lock
    /\ UNCHANGED <<chunks, TASK_QUEUE, COMPLETED_TASKS, chunk_load_jobs, chunk_unload_jobs,
                   updated_render_zones, sim, overflow_checks, budget, submitted, pushed, calls,
                   players>>

\* the slice Task::ChunkMeshFace rebuilds in each chunk of its box
BorderSlice(face) == <<face, IF is_positive_face(face) THEN ChunkEdge - 1 ELSE 0>>

\* Task::ChunkMeshFace: world.chunks.get(&chunk_pos) for the next position
FaceGet(w) ==
    LET box == BoxChunks(worker[w].task.min_chunk, worker[w].task.max_chunk)
        idx == worker[w].idx
    IN
    /\ worker[w].pc = "face_get"
    /\ IF idx > Len(box)
       THEN /\ worker' = [worker EXCEPT ![w].pc = "push"]
            /\ UNCHANGED shard_lock
       ELSE /\ CanRead(box[idx])
            /\ IF box[idx] \in DOMAIN chunks
               THEN /\ shard_lock' = AcquireRead(shard_lock, box[idx], w)
                    /\ worker' = [worker EXCEPT ![w].pc = "mesh_lock", ![w].target = box[idx],
                                                ![w].slices = <<BorderSlice(worker[w].task.face)>>]
               ELSE /\ worker' = [worker EXCEPT ![w].idx = idx + 1, ![w].skipped = @ + 1]
                    /\ UNCHANGED shard_lock
    /\ UNCHANGED <<chunks, TASK_QUEUE, COMPLETED_TASKS, chunk_load_jobs, chunk_unload_jobs,
                   updated_render_zones, sim, overflow_checks, budget, submitted, pushed, calls,
                   players>>

\* Chunk::mesh_update_inner begins on the next slice of the worker's chunk
MeshLock(w) ==
    LET chunk == worker[w].target IN
    /\ worker[w].pc = "mesh_lock"
    /\ chunks[chunk].mesh_writer = NoThread
    /\ chunks' = LockMesh(chunks, chunk, Head(worker[w].slices), w)
    /\ worker' = [worker EXCEPT ![w].pc = "mesh_build"]
    /\ UNCHANGED <<shard_lock, TASK_QUEUE, COMPLETED_TASKS, chunk_load_jobs, chunk_unload_jobs,
                   updated_render_zones, sim, overflow_checks, budget, submitted, pushed, calls,
                   players>>

\* Chunk::mesh_update_inner ends; after the last slice of the chunk the Ref
\* is dropped too
MeshBuild(w) ==
    LET chunk == worker[w].target
        last == Len(worker[w].slices) = 1
    IN
    /\ worker[w].pc = "mesh_build"
    /\ chunks' = BuildMesh(chunks, chunk, Head(worker[w].slices))
    /\ shard_lock' = IF last THEN ReleaseRead(shard_lock, chunk, w) ELSE shard_lock
    /\ worker' = [worker EXCEPT ![w].slices = Tail(@),
                                ![w].pc = IF ~last THEN "mesh_lock"
                                          ELSE IF worker[w].task.kind = "ChunkMesh" THEN "push"
                                          ELSE "face_get",
                                ![w].idx = IF last THEN @ + 1 ELSE @]
    /\ UNCHANGED <<TASK_QUEUE, COMPLETED_TASKS, chunk_load_jobs, chunk_unload_jobs,
                   updated_render_zones, sim, overflow_checks, budget, submitted, pushed, calls,
                   players>>

\* COMPLETED_TASKS.push(task) of the ChunkMesh, ChunkMeshFace and
\* UnloadChunks arms; the worker goes back to TASK_QUEUE.steal()
Push(w) ==
    /\ worker[w].pc = "push"
    /\ PushCompleted(w, "idle")
    /\ UNCHANGED <<chunks, shard_lock, TASK_QUEUE, chunk_load_jobs, chunk_unload_jobs,
                   updated_render_zones, sim, overflow_checks, budget, submitted, calls,
                   players>>

\* one step of a task_runner thread
WorkerStep(w) ==
    \/ Steal(w)
    \/ StealEmpty(w)
    \/ GenEntry(w)
    \/ GenInc(w)
    \/ GenPush(w)
    \/ GenDrop(w)
    \/ UnloadGet(w)
    \/ UnloadDec(w)
    \/ UnloadRemove(w)
    \/ MeshGet(w)
    \/ FaceGet(w)
    \/ MeshLock(w)
    \/ MeshBuild(w)
    \/ Push(w)

(* ------------------------ the simulation thread ----------------------- *)

\* run_task for each task of a sequence
RunTasks(tasks) ==
    /\ TASK_QUEUE' = TASK_QUEUE \o tasks
    /\ submitted' = submitted (+) [t \in SeqToSet(tasks) |->
                                      Cardinality({i \in DOMAIN tasks : tasks[i] = t})]

\* every task run so far has been executed and no worker is inside a task
Settled == TASK_QUEUE = <<>> /\ \A w \in Workers : worker[w].pc = "idle"

LogCall(op, min_chunk, max_chunk, mesh_face_task) ==
    calls' = Append(calls, [op |-> op, min_chunk |-> min_chunk, max_chunk |-> max_chunk,
                            mesh_face_task |-> mesh_face_task, settled |-> Settled])

\* World::load_chunks
load_chunks(min_chunk, max_chunk, mesh_face_task) ==
    LET box == BoxChunks(min_chunk, max_chunk) IN
    /\ sim.pc = "idle"
    /\ budget.calls > 0
    /\ budget.follow \/ mesh_face_task = NoMeshFaceTask
    /\ budget' = [budget EXCEPT !.calls = @ - 1]
    /\ chunk_load_jobs' = Append(chunk_load_jobs,
            ChunkLoadJob(min_chunk, max_chunk,
                         (max_chunk[1] - min_chunk[1]) * (max_chunk[2] - min_chunk[2])
                             * (max_chunk[3] - min_chunk[3]),
                         mesh_face_task))
    /\ RunTasks([i \in DOMAIN box |-> GenerateChunk(box[i])])
    /\ LogCall("load", min_chunk, max_chunk, mesh_face_task)
    /\ UNCHANGED <<chunks, shard_lock, COMPLETED_TASKS, chunk_unload_jobs,
                   updated_render_zones, worker, sim, overflow_checks, pushed, players>>

\* World::unload_chunks
unload_chunks(min_chunk, max_chunk, mesh_face_task) ==
    /\ sim.pc = "idle"
    /\ budget.calls > 0
    /\ budget.follow \/ mesh_face_task = NoMeshFaceTask
    /\ budget' = [budget EXCEPT !.calls = @ - 1]
    /\ chunk_load_jobs' = Append(chunk_load_jobs,
            ChunkLoadJob(min_chunk, max_chunk, 1, mesh_face_task))
    /\ RunTasks(<<UnloadChunks(min_chunk, max_chunk)>>)
    /\ LogCall("unload", min_chunk, max_chunk, mesh_face_task)
    /\ UNCHANGED <<chunks, shard_lock, COMPLETED_TASKS, chunk_unload_jobs,
                   updated_render_zones, worker, sim, overflow_checks, pushed, players>>

\* World::chunk_mesh_update
chunk_mesh_update(min_chunk, max_chunk) ==
    LET box == BoxChunks(min_chunk, max_chunk) IN [i \in DOMAIN box |-> ChunkMesh(box[i])]

\* the optional follow-up of a finished job, as the tasks to run
FollowUpTasks(job) ==
    IF job.mesh_face_task.kind = "Some" THEN <<into_task(job.mesh_face_task)>> ELSE <<>>

DrainLoadJobs_OneEarly(jobs, chunk) ==
    LET dec == [i \in DOMAIN jobs |->
                   IF contains_chunk(jobs[i], chunk)
                   THEN [jobs[i] EXCEPT !.remaining_chunks = @ - 1]
                   ELSE jobs[i]]
        done(job) == contains_chunk(job, chunk) /\ job.remaining_chunks <= 1
        not_done(job) == ~done(job)
    IN  [kept |-> SelectSeq(dec, not_done), finished |-> SelectSeq(dec, done)]

\* load_jobs.drain_filter(..) of the GenerateChunk arm, run to its end (the
\* iterator is exhausted when it is dropped): every job that contains the
\* chunk is decremented, and removed when it reaches zero
DrainLoadJobs(jobs, chunk) ==
    LET dec == [i \in DOMAIN jobs |->
                   IF contains_chunk(jobs[i], chunk)
                   THEN [jobs[i] EXCEPT !.remaining_chunks = @ - 1]
                   ELSE jobs[i]]
        done(job) == contains_chunk(job, chunk) /\ job.remaining_chunks = 0
        not_done(job) == ~done(job)
    IN  [kept |-> SelectSeq(dec, not_done), finished |-> SelectSeq(dec, done)]

\* unload_jobs.drain_filter(..) of the UnloadChunks arm
DrainUnloadJobs(jobs, min_chunk, max_chunk) ==
    LET match(job) == job.min_chunk = min_chunk /\ job.max_chunk = max_chunk
        no_match(job) == ~match(job)
    IN  [kept |-> SelectSeq(jobs, no_match), finished |-> SelectSeq(jobs, match)]

\* World::poll_completed_tasks: one turn of `while let Some(task) =
\* pull_completed_task()`
PollStep ==
    LET task == Head(COMPLETED_TASKS) IN
    /\ sim.pc = "poll" \/ (sim.pc = "idle" /\ budget.polls > 0)
    /\ COMPLETED_TASKS # <<>>
    /\ COMPLETED_TASKS' = Tail(COMPLETED_TASKS)
    /\ sim' = [sim EXCEPT !.pc = "poll"]
    /\ budget' = IF sim.pc = "idle" THEN [budget EXCEPT !.polls = @ - 1] ELSE budget
    /\ CASE task.kind = "ChunkMesh" ->
              /\ updated_render_zones' = mark_chunk(updated_render_zones, task.chunk)
              /\ UNCHANGED <<chunk_load_jobs, chunk_unload_jobs, TASK_QUEUE, submitted>>
         [] task.kind = "ChunkMeshFace" ->
              /\ updated_render_zones' =
                     mark_chunk_zone(updated_render_zones, task.min_chunk, task.max_chunk)
              /\ UNCHANGED <<chunk_load_jobs, chunk_unload_jobs, TASK_QUEUE, submitted>>
         [] task.kind = "GenerateChunk" ->
              LET drained == DrainLoadJobs(chunk_load_jobs, task.chunk) IN
              /\ chunk_load_jobs' = drained.kept
              /\ IF drained.finished # <<>>
                 THEN RunTasks(chunk_mesh_update(Head(drained.finished).min_chunk,
                                                 Head(drained.finished).max_chunk)
                               \o FollowUpTasks(Head(drained.finished)))
                 ELSE UNCHANGED <<TASK_QUEUE, submitted>>
              /\ UNCHANGED <<chunk_unload_jobs, updated_render_zones>>
         [] task.kind = "UnloadChunks" ->
              LET drained == DrainUnloadJobs(chunk_unload_jobs, task.min_chunk, task.max_chunk) IN
              /\ updated_render_zones' =
                     mark_chunk_zone(updated_render_zones, task.min_chunk, task.max_chunk)
              /\ chunk_unload_jobs' = drained.kept
              /\ IF drained.finished # <<>>
                 THEN RunTasks(FollowUpTasks(Head(drained.finished)))
                 ELSE UNCHANGED <<TASK_QUEUE, submitted>>
              /\ UNCHANGED chunk_load_jobs
    /\ UNCHANGED <<chunks, shard_lock, worker, overflow_checks, pushed, calls, players>>

\* World::poll_completed_tasks returns: pull_completed_task() gave None
PollReturn ==
    /\ sim.pc = "poll"
    /\ COMPLETED_TASKS = <<>>
    /\ sim' = IdleSim
    /\ UNCHANGED <<chunks, shard_lock, TASK_QUEUE, COMPLETED_TASKS, chunk_load_jobs,
                   chunk_unload_jobs, updated_render_zones, worker, overflow_checks, budget,
                   submitted, pushed, calls, players>>

\* another thread is at work on the store: no worker is alone any more
NotAlone == [w \in Workers |-> [worker[w] EXCEPT !.alone = FALSE]]

\* World::set_block is entered
set_block(block_pos, block) ==
    /\ sim.pc = "idle"
    /\ budget.edits > 0
    /\ budget' = [budget EXCEPT !.edits = @ - 1]
    /\ sim' = [IdleSim EXCEPT !.pc = "set_block", !.block = block_pos, !.value = block,
                              !.target = as_chunk_pos(block_pos)]
    /\ worker' = NotAlone
    /\ UNCHANGED <<chunks, shard_lock, TASK_QUEUE, COMPLETED_TASKS, chunk_load_jobs,
                   chunk_unload_jobs, updated_render_zones, overflow_checks, submitted,
                   pushed, calls, players>>

\* World::set_block: self.chunks.get(&chunk_pos), then Chunk::set_block
\* under the Ref (blocks.write() waits for no one: the workers' reads of
\* the blocks are single steps here), and the method returns
SetBlockGet ==
    LET found == sim.target \in DOMAIN chunks IN
    /\ sim.pc = "set_block"
    /\ CanRead(sim.target)
    /\ chunks' = IF found
                 THEN [chunks EXCEPT ![sim.target].blocks =
                          Chunk_set_block(@, as_chunk_local(sim.block), sim.value)]
                 ELSE chunks
    /\ sim' = [IdleSim EXCEPT !.ret = [op |-> "set_block", block_pos |-> sim.block,
                                      ok |-> found]]
    /\ UNCHANGED <<shard_lock, TASK_QUEUE, COMPLETED_TASKS, chunk_load_jobs, chunk_unload_jobs,
                   updated_render_zones, worker, overflow_checks, budget, submitted, pushed,
                   calls, players>>

\* UpdatedRenderZones::mark_block
mark_block(zones, block) == mark_chunk(zones, as_chunk_pos(block))

\* the six mesh_update_inner calls mesh_update_adjacent makes on the
\* block's own chunk
OwnSlices(block) ==
    [i \in 1..Len(Faces) |-> <<Faces[i], get_face_component(as_chunk_local(block), Faces[i])>>]

offset_block_Forward(block, face) == [i \in 1..3 |-> block[i] + block_pos_offset(face)[i]]

\* let offset_block = block - face.block_pos_offset()
offset_block(block, face) == [i \in 1..3 |-> block[i] - block_pos_offset(face)[i]]

\* World::mesh_update_adjacent is entered
mesh_update_adjacent(block) ==
    /\ sim.pc = "idle"
    /\ budget.edits > 0
    /\ budget' = [budget EXCEPT !.edits = @ - 1]
    /\ sim' = [IdleSim EXCEPT !.pc = "adjacent_own", !.block = block,
                              !.target = as_chunk_pos(block)]
    /\ worker' = NotAlone
    /\ UNCHANGED <<chunks, shard_lock, TASK_QUEUE, COMPLETED_TASKS, chunk_load_jobs,
                   chunk_unload_jobs, updated_render_zones, overflow_checks, submitted,
                   pushed, calls, players>>

\* the simulation thread inside mesh_update_adjacent, about to look at the
\* neighbour across face number idx; it returns after the last face
AdjacentNext(idx) ==
    IF idx > Len(Faces) THEN [IdleSim EXCEPT !.ret = [op |-> "mesh_update_adjacent"]]
    ELSE [sim EXCEPT !.pc = "adjacent_get", !.idx = idx, !.slices = <<>>,
                     !.target = as_chunk_pos(offset_block(sim.block, Faces[idx]))]

\* mesh_update_adjacent: if let Some(chunk) = self.chunks.get(&block.as_chunk_pos())
AdjacentOwnGet ==
    /\ sim.pc = "adjacent_own"
    /\ CanRead(sim.target)
    /\ IF sim.target \in DOMAIN chunks
       THEN /\ shard_lock' = AcquireRead(shard_lock, sim.target, SimThread)
            /\ sim' = [sim EXCEPT !.pc = "adjacent_lock", !.slices = OwnSlices(sim.block)]
       ELSE /\ sim' = AdjacentNext(1)
            /\ UNCHANGED shard_lock
    /\ UNCHANGED <<chunks, TASK_QUEUE, COMPLETED_TASKS, chunk_load_jobs, chunk_unload_jobs,
                   updated_render_zones, worker, overflow_checks, budget, submitted, pushed,
                   calls, players>>

\* mesh_update_adjacent: if let Some(chunk) =
\* self.chunks.get(&offset_block.as_chunk_pos()), then mark_block(offset_block)
AdjacentGet ==
    LET face == Faces[sim.idx] IN
    /\ sim.pc = "adjacent_get"
    /\ CanRead(sim.target)
    /\ IF sim.target \in DOMAIN chunks
       THEN /\ shard_lock' = AcquireRead(shard_lock, sim.target, SimThread)
            /\ updated_render_zones' =
                   mark_block(updated_render_zones, offset_block(sim.block, face))
            /\ sim' = [sim EXCEPT !.pc = "adjacent_lock",
                                  !.slices = <<<<face, get_face_component(
                                      as_chunk_local(offset_block(sim.block, face)), face)>>>>]
       ELSE /\ sim' = AdjacentNext(sim.idx + 1)
            /\ UNCHANGED <<shard_lock, updated_render_zones>>
    /\ UNCHANGED <<chunks, TASK_QUEUE, COMPLETED_TASKS, chunk_load_jobs, chunk_unload_jobs,
                   worker, overflow_checks, budget, submitted, pushed, calls, players>>

\* mesh_update_adjacent: Chunk::mesh_update_inner begins on the next slice
AdjacentLock ==
    /\ sim.pc = "adjacent_lock"
    /\ chunks[sim.target].mesh_writer = NoThread
    /\ chunks' = LockMesh(chunks, sim.target, Head(sim.slices), SimThread)
    /\ sim' = [sim EXCEPT !.pc = "adjacent_build"]
    /\ UNCHANGED <<shard_lock, TASK_QUEUE, COMPLETED_TASKS, chunk_load_jobs, chunk_unload_jobs,
                   updated_render_zones, worker, overflow_checks, budget, submitted, pushed,
                   calls, players>>

\* mesh_update_adjacent: Chunk::mesh_update_inner ends; after the last slice
\* of the own chunk the block is marked, and the Ref is dropped
AdjacentBuild ==
    LET last == Len(sim.slices) = 1 IN
    /\ sim.pc = "adjacent_build"
    /\ chunks' = BuildMesh(chunks, sim.target, Head(sim.slices))
    /\ shard_lock' = IF last THEN ReleaseRead(shard_lock, sim.target, SimThread)
                     ELSE shard_lock
    /\ updated_render_zones' = IF last /\ sim.idx = 0
                               THEN mark_block(updated_render_zones, sim.block)
                               ELSE updated_render_zones
    /\ sim' = IF last THEN AdjacentNext(sim.idx + 1)
              ELSE [sim EXCEPT !.pc = "adjacent_lock", !.slices = Tail(@)]
    /\ UNCHANGED <<TASK_QUEUE, COMPLETED_TASKS, chunk_load_jobs, chunk_unload_jobs,
                   worker, overflow_checks, budget, submitted, pushed, calls, players>>

\* the chunk positions render_zone_mesh visits that a call ever loads, in
\* the order of its loops; at any other position chunks.get finds nothing
ZoneChunks(render_zone) ==
    LET in_coords(chunk) == chunk \in Coords IN
    SelectSeq(BoxChunks(render_zone, [i \in 1..3 |-> render_zone[i] + RENDER_ZONE_SIZE]),
              in_coords)

\* the render zones render_zone_mesh is called with
Zones == {get_render_zone_of_chunk(chunk) : chunk \in Coords}

\* World::render_zone_mesh is entered
render_zone_mesh(render_zone) ==
    /\ sim.pc = "idle"
    /\ budget.edits > 0
    /\ budget' = [budget EXCEPT !.edits = @ - 1]
    /\ sim' = IF ZoneChunks(render_zone) = <<>>
              THEN [IdleSim EXCEPT !.ret = [op |-> "render_zone_mesh", out |-> <<>>]]
              ELSE [IdleSim EXCEPT !.pc = "zone_get", !.block = render_zone, !.idx = 1,
                                   !.target = ZoneChunks(render_zone)[1]]
    /\ UNCHANGED <<chunks, shard_lock, TASK_QUEUE, COMPLETED_TASKS, chunk_load_jobs,
                   chunk_unload_jobs, updated_render_zones, worker, overflow_checks,
                   submitted, pushed, calls, players>>

MeshReadMode_Blocking == "read"

\* how Chunk::get_chunk_mesh takes the mesh cache's lock: try_read gives up
\* when a writer holds it
MeshReadMode == "try_read"

get_chunk_mesh_Locked(chunk) == [kind |-> "Some", mesh |-> chunk.chunk_mesh]

\* Chunk::get_chunk_mesh: Some(the quads of all slices), or None when the
\* lock is not to be had
get_chunk_mesh(chunk) ==
    IF chunk.mesh_writer = NoThread
    THEN [kind |-> "Some", mesh |-> chunk.chunk_mesh]
    ELSE [kind |-> "None"]

\* the simulation thread cannot go on until a worker lets go of the mesh
\* cache of the chunk render_zone_mesh is at
ZoneWaitsForMesh ==
    /\ sim.pc = "zone_get"
    /\ MeshReadMode # "try_read"
    /\ sim.target \in DOMAIN chunks
    /\ chunks[sim.target].mesh_writer # NoThread

\* render_zone_mesh: self.chunks.get(&chunk_pos) and get_chunk_mesh for the
\* next position; after the last one the method returns out
ZoneGet ==
    LET zone_chunks == ZoneChunks(sim.block)
        mesh == IF sim.target \in DOMAIN chunks THEN get_chunk_mesh(chunks[sim.target])
                ELSE [kind |-> "None"]
        out == IF mesh.kind = "Some"
               THEN Append(sim.out, [chunk |-> sim.target, mesh |-> mesh.mesh])
               ELSE sim.out
    IN
    /\ sim.pc = "zone_get"
    /\ CanRead(sim.target)
    /\ ~ZoneWaitsForMesh
    /\ sim' = IF sim.idx = Len(zone_chunks)
              THEN [IdleSim EXCEPT !.ret = [op |-> "render_zone_mesh", out |-> out]]
              ELSE [sim EXCEPT !.idx = @ + 1, !.target = zone_chunks[sim.idx + 1],
                               !.out = out]
    /\ UNCHANGED <<chunks, shard_lock, TASK_QUEUE, COMPLETED_TASKS, chunk_load_jobs,
                   chunk_unload_jobs, updated_render_zones, worker, overflow_checks, budget,
                   submitted, pushed, calls, players>>

(* -------------------------- block accessors --------------------------- *)

\* the accessors of a chunk's blocks and the guard each takes on
\* Chunk::blocks
Accessors == {"get_block", "get_block_mut", "set_block"}
AccessorGuard(accessor) == IF accessor = "get_block" THEN "read" ELSE "write"

\* the coordinates an accessor is called with: chunk-local ones and those
\* one step out of the chunk on any axis
AccessCoords ==
    {BlockPos(x, y, z) : x \in -1..ChunkEdge, y \in -1..ChunkEdge, z \in -1..ChunkEdge}

\* Chunk::get_block / get_block_mut / set_block is called on a loaded chunk
Chunk_access(accessor, chunk, block_pos, block) ==
    /\ sim.pc = "idle"
    /\ budget.edits > 0
    /\ chunk \in DOMAIN chunks
    /\ budget' = [budget EXCEPT !.edits = @ - 1]
    /\ sim' = [IdleSim EXCEPT !.pc = "access_assert", !.accessor = accessor,
                              !.target = chunk, !.block = block_pos, !.value = block]
    /\ UNCHANGED <<chunks, shard_lock, TASK_QUEUE, COMPLETED_TASKS, chunk_load_jobs,
                   chunk_unload_jobs, updated_render_zones, worker, overflow_checks,
                   submitted, pushed, calls, players>>

\* assert!(block.is_chunk_local()): the thread panics when it fails
AccessAssert ==
    /\ sim.pc = "access_assert"
    /\ sim' = [sim EXCEPT !.pc = IF is_chunk_local(sim.block) THEN "access_lock"
                                 ELSE "panicked"]
    /\ UNCHANGED <<chunks, shard_lock, TASK_QUEUE, COMPLETED_TASKS, chunk_load_jobs,
                   chunk_unload_jobs, updated_render_zones, worker, overflow_checks, budget,
                   submitted, pushed, calls, players>>

\* self.blocks.read() / self.blocks.write()
AccessLock ==
    /\ sim.pc = "access_lock"
    /\ chunks[sim.target].blocks_guard = "none"
    /\ chunks' = [chunks EXCEPT ![sim.target].blocks_guard = AccessorGuard(sim.accessor)]
    /\ sim' = [sim EXCEPT !.pc = "access_block"]
    /\ UNCHANGED <<shard_lock, TASK_QUEUE, COMPLETED_TASKS, chunk_load_jobs, chunk_unload_jobs,
                   updated_render_zones, worker, overflow_checks, budget, submitted, pushed,
                   calls, players>>

\* block_lock[x][y][z] is read through the reference returned (get_block,
\* get_block_mut) or written (set_block), and the guard is dropped
AccessBlock ==
    /\ sim.pc = "access_block"
    /\ chunks' = [chunks EXCEPT
                      ![sim.target].blocks_guard = "none",
                      ![sim.target].blocks =
                          IF sim.accessor = "set_block"
                          THEN Chunk_set_block(@, sim.block, sim.value)
                          ELSE @]
    /\ sim' = [IdleSim EXCEPT
                  !.ret = IF sim.accessor = "set_block" THEN [op |-> sim.accessor]
                          ELSE [op |-> sim.accessor,
                                block |-> Chunk_get_block(chunks[sim.target].blocks,
                                                          sim.block)]]
    /\ UNCHANGED <<shard_lock, TASK_QUEUE, COMPLETED_TASKS, chunk_load_jobs, chunk_unload_jobs,
                   updated_render_zones, worker, overflow_checks, budget, submitted, pushed,
                   calls, players>>

\* the store once the GenerateChunk tasks of load_chunks(min, max) have
\* been executed on the empty store
LoadedStore(min_chunk, max_chunk) ==
    [chunk \in SeqToSet(BoxChunks(min_chunk, max_chunk)) |->
        [generate_chunk(chunk) EXCEPT !.load_count = fetch_add(@)]]

\* the accessors are called once load_chunks((0,0,0), (1,1,1), None) has
\* been made and its GenerateChunk task executed
AccessInit ==
    LET min_chunk == ChunkPos(0, 0, 0)
        max_chunk == ChunkPos(1, 1, 1)
    IN
    /\ chunks = LoadedStore(min_chunk, max_chunk)
    /\ shard_lock = [s \in Shards |-> NoLock]
    /\ TASK_QUEUE = <<>>
    /\ COMPLETED_TASKS = <<GenerateChunk(min_chunk)>>
    /\ chunk_load_jobs = <<ChunkLoadJob(min_chunk, max_chunk, 1, NoMeshFaceTask)>>
    /\ chunk_unload_jobs = <<>>
    /\ updated_render_zones = {}
    /\ worker = [w \in Workers |-> IdleWorker]
    /\ sim = IdleSim
    /\ overflow_checks = "unknown"
    /\ budget = [calls |-> 0, polls |-> 0, edits |-> MaxEdits, follow |-> FALSE,
                 workers |-> {}]
    /\ submitted = SetToBag({GenerateChunk(min_chunk)})
    /\ pushed = SetToBag({GenerateChunk(min_chunk)})
    /\ calls = <<[op |-> "load", min_chunk |-> min_chunk, max_chunk |-> max_chunk,
                  mesh_face_task |-> NoMeshFaceTask, settled |-> TRUE]>>
    /\ players = <<>>

AccessNext ==
    \/ \E accessor \in Accessors, chunk \in Coords, block_pos \in AccessCoords,
          block \in EditBlocks : Chunk_access(accessor, chunk, block_pos, block)
    \/ AccessAssert
    \/ AccessLock
    \/ AccessBlock

AccessSpec == AccessInit /\ [][AccessNext]_vars

(* --------------------------- digging blocks --------------------------- *)

\* Client::physics_update with destroy_block set: world.set_block(block,
\* Air::new().into()) ...
physics_update_set_block(block) ==
    /\ sim.ret.op # "set_block"
    /\ set_block(block, "Air")

\* ... and then world.mesh_update_adjacent(block, ..) on the same block
physics_update_mesh_update(block) ==
    /\ sim.ret.op = "set_block"
    /\ sim.ret.block_pos = block
    /\ mesh_update_adjacent(block)

\* the store once the ChunkMesh tasks that follow load_chunks(min, max)
\* have been executed as well
MeshedStore(min_chunk, max_chunk) ==
    LET loaded == LoadedStore(min_chunk, max_chunk) IN
    [chunk \in DOMAIN loaded |->
        [loaded[chunk] EXCEPT
            !.chunk_mesh = [slice \in SeqToSet(Slices) |->
                               mesh_update_inner(loaded, chunk, slice[1], slice[2])]]]

\* the boxes loaded before blocks are dug: one inside the render zone at
\* the origin, one across the border of two render zones; and the blocks
\* dug at: the bottom row of both boxes, loaded or not
MeshBoxes == {<<ChunkPos(0, 0, 0), ChunkPos(MaxX + 1, 1, 1)>>,
              <<ChunkPos(-1, 0, 0), ChunkPos(MaxX, 1, 1)>>}
MeshBlocks == {BlockPos(x, 0, 0) : x \in (-ChunkEdge)..((MaxX + 1) * ChunkEdge - 1)}

\* blocks are dug once load_chunks(min, max, None) has been made, its
\* GenerateChunk and ChunkMesh tasks have been executed, their completions
\* polled and the dirty zones consumed by the client
MeshInit ==
    \E box \in MeshBoxes :
        LET min_chunk == box[1]
            max_chunk == box[2]
            loaded == SeqToSet(BoxChunks(min_chunk, max_chunk))
        IN
        /\ chunks = MeshedStore(min_chunk, max_chunk)
        /\ shard_lock = [s \in Shards |-> NoLock]
        /\ TASK_QUEUE = <<>>
        /\ COMPLETED_TASKS = <<>>
        /\ chunk_load_jobs = <<>>
        /\ chunk_unload_jobs = <<>>
        /\ updated_render_zones = {}
        /\ worker = [w \in Workers |-> IdleWorker]
        /\ sim = IdleSim
        /\ overflow_checks = "unknown"
        /\ budget = [calls |-> 0, polls |-> 0, edits |-> 2 * MaxDigs, follow |-> FALSE,
                     workers |-> {}]
        /\ submitted = SetToBag({GenerateChunk(chunk) : chunk \in loaded}
                                \cup {ChunkMesh(chunk) : chunk \in loaded})
        /\ pushed = submitted
        /\ calls = <<[op |-> "load", min_chunk |-> min_chunk, max_chunk |-> max_chunk,
                      mesh_face_task |-> NoMeshFaceTask, settled |-> TRUE]>>
        /\ players = <<>>

MeshNext ==
    \/ \E block \in MeshBlocks : physics_update_set_block(block)
    \/ SetBlockGet
    \/ \E block \in MeshBlocks : physics_update_mesh_update(block)
    \/ AdjacentOwnGet
    \/ AdjacentGet
    \/ AdjacentLock
    \/ AdjacentBuild

MeshSpec == MeshInit /\ [][MeshNext]_vars

(* ------------------- mesh rebuild against set_block ------------------- *)

\* the threads that hold a ChunkBlockRef (a read guard on Chunk::blocks) of
\* a chunk: a worker between `let block = self.get_block(block_pos)` and
\* the end of that turn of the third pass
BlockReaders(chunk) ==
    {w \in Workers : worker[w].pc = "mesh_region" /\ worker[w].target = chunk}

\* parking_lot's RwLock::read(): it waits while a writer holds the lock or
\* has set the writer bit and waits for the readers to leave, also when the
\* calling thread holds a read guard already
CanReadBlocks(chunk) == chunks[chunk].blocks_guard = "none"

\* mesh_update_inner: set_face_coord and the first two passes (every
\* get_block guard is dropped at the end of its statement)
MeshPasses(w) ==
    LET chunk == worker[w].target
        slice == Head(worker[w].slices)
    IN
    /\ worker[w].pc = "mesh_build"
    /\ \A position \in DOMAIN chunks : CanReadBlocks(position)
    /\ worker' = [worker EXCEPT
                     ![w].pc = "mesh_cell",
                     ![w].mesh = [op |-> "mesh_update_inner",
                                  visit_map |-> VisitedBlockMap(chunks, chunk, slice[1],
                                                                slice[2]),
                                  x |-> 0, y |-> 0, quads |-> <<>>]]
    /\ UNCHANGED <<chunks, shard_lock, TASK_QUEUE, COMPLETED_TASKS, chunk_load_jobs,
                   chunk_unload_jobs, updated_render_zones, sim, overflow_checks, budget,
                   submitted, pushed, calls, players>>

\* the third pass at the position (x, y): the loops end and the guard on
\* chunk_mesh is dropped, or the position is passed over, or `let block =
\* self.get_block(block_pos)` takes a read guard that is kept
MeshCell(w) ==
    LET chunk == worker[w].target
        mesh == worker[w].mesh
        last == Len(worker[w].slices) = 1
    IN
    /\ worker[w].pc = "mesh_cell"
    /\ IF mesh.x = ChunkEdge
       THEN /\ chunks' = [chunks EXCEPT ![chunk].mesh_writer = NoThread,
                                        ![chunk].chunk_mesh[Head(worker[w].slices)] =
                                            mesh.quads]
            /\ shard_lock' = IF last THEN ReleaseRead(shard_lock, chunk, w) ELSE shard_lock
            /\ worker' = [worker EXCEPT
                             ![w].slices = Tail(@),
                             ![w].mesh = NoMesh,
                             ![w].pc = IF ~last THEN "mesh_lock"
                                       ELSE IF worker[w].task.kind = "ChunkMesh" THEN "push"
                                       ELSE "face_get",
                             ![w].idx = IF last THEN @ + 1 ELSE @]
       ELSE IF mesh.y >= ChunkEdge
       THEN /\ worker' = [worker EXCEPT ![w].mesh.x = @ + 1, ![w].mesh.y = 0]
            /\ UNCHANGED <<chunks, shard_lock>>
       ELSE IF mesh.visit_map.visited_blocks[mesh.x, mesh.y]
       THEN /\ worker' = [worker EXCEPT ![w].mesh.y = @ + 1]
            /\ UNCHANGED <<chunks, shard_lock>>
       ELSE /\ CanReadBlocks(chunk)
            /\ worker' = [worker EXCEPT ![w].pc = "mesh_region"]
            /\ UNCHANGED <<chunks, shard_lock>>
    /\ UNCHANGED <<TASK_QUEUE, COMPLETED_TASKS, chunk_load_jobs, chunk_unload_jobs,
                   updated_render_zones, sim, overflow_checks, budget, submitted, pushed, calls,
                   players>>

\* the widening loop calls self.get_block(current_block_pos): the next
\* position is in the chunk and not visited
RegionReads(mesh) ==
    /\ mesh.y + 1 < ChunkEdge
    /\ ~mesh.visit_map.visited_blocks[mesh.x, mesh.y + 1]

\* Block::texture_index of Air and Stone
texture_index(block) ==
    IF block = "Air" THEN [kind |-> "None"] ELSE [kind |-> "Some", index |-> block]

\* the rest of the turn, with the guard of `block` held: the widening
\* loop reads the blocks as they are now, block.texture_index().unwrap()
\* panics on None (the guards are dropped as the thread unwinds), else the
\* quad is pushed and the guard dropped
MeshRegion(w) ==
    LET chunk == worker[w].target
        mesh == worker[w].mesh
        slice == Head(worker[w].slices)
        visit_map == [mesh.visit_map EXCEPT
                         !.block_at = slice_blocks(chunks, chunk, slice[1], slice[2])]
        width == region_width(visit_map, mesh.x, mesh.y)
    IN
    /\ worker[w].pc = "mesh_region"
    /\ RegionReads(mesh) => CanReadBlocks(chunk)
    /\ IF texture_index(visit_map.block_at[mesh.x, mesh.y]).kind = "None"
       THEN /\ worker' = [worker EXCEPT ![w].pc = "panicked"]
            /\ chunks' = [chunks EXCEPT ![chunk].mesh_writer = NoThread,
                                        ![chunk].chunk_mesh[slice] = mesh.quads]
            /\ shard_lock' = ReleaseRead(shard_lock, chunk, w)
       ELSE /\ worker' = [worker EXCEPT
                             ![w].pc = "mesh_cell",
                             ![w].mesh.y = @ + width,
                             ![w].mesh.quads =
                                 Append(@, from_cube_corners(visit_map, mesh.x, mesh.y, width)),
                             ![w].mesh.visit_map.visited_blocks =
                                 [p \in DOMAIN @ |->
                                     @[p] \/ (p[1] = mesh.x /\ p[2] > mesh.y
                                                /\ p[2] < mesh.y + width)]]
            /\ UNCHANGED <<chunks, shard_lock>>
    /\ UNCHANGED <<TASK_QUEUE, COMPLETED_TASKS, chunk_load_jobs, chunk_unload_jobs,
                   updated_render_zones, sim, overflow_checks, budget, submitted, pushed, calls,
                   players>>

\* World::set_block: self.chunks.get(&chunk_pos), then Chunk::set_block
\* calls self.blocks.write(), which sets the writer bit
SetBlockLock ==
    LET found == sim.target \in DOMAIN chunks IN
    /\ sim.pc = "set_block"
    /\ CanRead(sim.target)
    /\ IF found
       THEN /\ chunks[sim.target].blocks_guard = "none"
            /\ chunks' = [chunks EXCEPT ![sim.target].blocks_guard = "write"]
            /\ shard_lock' = AcquireRead(shard_lock, sim.target, SimThread)
            /\ sim' = [sim EXCEPT !.pc = "set_block_store"]
       ELSE /\ sim' = [IdleSim EXCEPT !.ret = [op |-> "set_block", block_pos |-> sim.block,
                                              ok |-> FALSE]]
            /\ UNCHANGED <<chunks, shard_lock>>
    /\ UNCHANGED <<TASK_QUEUE, COMPLETED_TASKS, chunk_load_jobs, chunk_unload_jobs,
                   updated_render_zones, worker, overflow_checks, budget, submitted, pushed,
                   calls, players>>

\* blocks.write() returns once the readers have left: the block is
\* stored, the guard and the Ref are dropped, and set_block returns
SetBlockStore ==
    /\ sim.pc = "set_block_store"
    /\ BlockReaders(sim.target) = {}
    /\ chunks' = [chunks EXCEPT
                     ![sim.target].blocks_guard = "none",
                     ![sim.target].blocks =
                         Chunk_set_block(@, as_chunk_local(sim.block), sim.value)]
    /\ shard_lock' = ReleaseRead(shard_lock, sim.target, SimThread)
    /\ sim' = [IdleSim EXCEPT !.ret = [op |-> "set_block", block_pos |-> sim.block,
                                      ok |-> TRUE]]
    /\ UNCHANGED <<TASK_QUEUE, COMPLETED_TASKS, chunk_load_jobs, chunk_unload_jobs,
                   updated_render_zones, worker, overflow_checks, budget, submitted, pushed,
                   calls, players>>

\* the blocks set while the mesh is rebuilt: the ground under the player
RaceBlocks == {BlockPos(x, 0, z) : x \in 0..1, z \in 0..1}

\* load_chunks((0,0,0), (1,1,1), None) has been made, its GenerateChunk task
\* executed and its completion polled: the ChunkMesh task of the chunk is
\* in the queue
RaceInit ==
    LET min_chunk == ChunkPos(0, 0, 0)
        max_chunk == ChunkPos(1, 1, 1)
    IN
    /\ chunks = LoadedStore(min_chunk, max_chunk)
    /\ shard_lock = [s \in Shards |-> NoLock]
    /\ TASK_QUEUE = chunk_mesh_update(min_chunk, max_chunk)
    /\ COMPLETED_TASKS = <<>>
    /\ chunk_load_jobs = <<>>
    /\ chunk_unload_jobs = <<>>
    /\ updated_render_zones = {}
    /\ worker = [w \in Workers |-> IdleWorker]
    /\ sim = IdleSim
    /\ overflow_checks = "unknown"
    /\ budget = [calls |-> 0, polls |-> 0, edits |-> MaxRaceEdits, follow |-> FALSE,
                 workers |-> {"w1"}]
    /\ submitted = SetToBag({GenerateChunk(min_chunk), ChunkMesh(min_chunk)})
    /\ pushed = SetToBag({GenerateChunk(min_chunk)})
    /\ calls = <<[op |-> "load", min_chunk |-> min_chunk, max_chunk |-> max_chunk,
                  mesh_face_task |-> NoMeshFaceTask, settled |-> TRUE]>>
    /\ players = <<>>

RaceNext ==
    \/ \E w \in Workers :
          \/ Steal(w)
          \/ MeshGet(w)
          \/ MeshLock(w)
          \/ MeshPasses(w)
          \/ MeshCell(w)
          \/ MeshRegion(w)
          \/ Push(w)
    \/ \E block \in RaceBlocks, value \in EditBlocks : set_block(block, value)
    \/ SetBlockLock
    \/ SetBlockStore

RaceSpec == RaceInit /\ [][RaceNext]_vars

(* ------------------------------ remeshing ----------------------------- *)

\* the blocks of chunk (0, 0, 0) that have been edited before the slices
\* are rebuilt: each becomes air where the terrain is stone and stone
\* where it is air
RemeshEdits ==
    {BlockPos(0, 0, 0), BlockPos(ChunkEdge - 1, 0, 0), BlockPos(ChunkEdge - 1, 0, ChunkEdge - 1)}

RECURSIVE SetBlocks(_, _, _)
SetBlocks(blocks, positions, chunk) ==
    IF positions = {} THEN blocks
    ELSE LET block_pos == CHOOSE p \in positions : TRUE
             block == IF is_air(block_fn(Add(block_pos, as_block_pos(chunk))))
                      THEN "Stone" ELSE "Air"
         IN  SetBlocks(Chunk_set_block(blocks, block_pos, block), positions \ {block_pos},
                       chunk)

\* Chunk::mesh_update_inner(face, index, &mut visit_map), the whole call,
\* by a thread that keeps its visit map from one call to the next (as
\* chunk_mesh_update and mesh_update_adjacent do)
mesh_update_inner_call(chunk, face, index) ==
    LET result == mesh_update_inner_with(sim.visit_map, chunks, chunk, face, index) IN
    /\ sim.pc = "idle"
    /\ budget.edits > 0
    /\ chunk \in DOMAIN chunks
    /\ chunks[chunk].mesh_writer = NoThread
    /\ budget' = [budget EXCEPT !.edits = @ - 1]
    /\ chunks' = [chunks EXCEPT ![chunk].chunk_mesh[<<face, index>>] = result.quads]
    /\ sim' = [sim EXCEPT !.visit_map = result.visit_map,
                          !.out = Append(@, [chunk |-> chunk, face |-> face, index |-> index,
                                             quads |-> result.quads])]
    /\ UNCHANGED <<shard_lock, TASK_QUEUE, COMPLETED_TASKS, chunk_load_jobs, chunk_unload_jobs,
                   updated_render_zones, worker, overflow_checks, submitted, pushed, calls,
                   players>>

\* the stores slices are rebuilt on: chunk (0, 0, 0), half stone and half
\* air, alone or with its neighbour along x, generated and then edited at
\* some of RemeshEdits; or the chunk below it, all stone, alone
RemeshStores ==
    {[LoadedStore(ChunkPos(0, 0, 0), ChunkPos(max_x, 1, 1))
          EXCEPT ![ChunkPos(0, 0, 0)].blocks = SetBlocks(@, edits, ChunkPos(0, 0, 0))] :
        max_x \in 1..2, edits \in SUBSET RemeshEdits}
    \cup {LoadedStore(ChunkPos(0, -1, 0), ChunkPos(1, 0, 1))}

\* a thread with a new visit map
RemeshInit ==
    /\ chunks \in RemeshStores
    /\ shard_lock = [s \in Shards |-> NoLock]
    /\ TASK_QUEUE = <<>>
    /\ COMPLETED_TASKS = <<>>
    /\ chunk_load_jobs = <<>>
    /\ chunk_unload_jobs = <<>>
    /\ updated_render_zones = {}
    /\ worker = [w \in Workers |-> IdleWorker]
    /\ sim = IdleSim
    /\ overflow_checks = "unknown"
    /\ budget = [calls |-> 0, polls |-> 0, edits |-> MaxRemesh, follow |-> FALSE,
                 workers |-> {}]
    /\ submitted = EmptyBag
    /\ pushed = EmptyBag
    /\ calls = <<>>
    /\ players = <<>>

RemeshNext ==
    \E chunk \in {ChunkPos(0, 0, 0), ChunkPos(0, -1, 0)}, slice \in SeqToSet(Slices) :
        mesh_update_inner_call(chunk, slice[1], slice[2])

RemeshSpec == RemeshInit /\ [][RemeshNext]_vars

(* ------------------------- marking render zones ----------------------- *)

\* the coordinates marked: on x from one chunk below the zone at
\* -RENDER_ZONE_SIZE to one chunk above the zone at 0, on y around 0
MarkAxis == (-RENDER_ZONE_SIZE - 1)..(RENDER_ZONE_SIZE + 1)
MarkChunks == {ChunkPos(x, y, 0) : x \in MarkAxis, y \in {-1, 0}}
MarkBlocks == {BlockPos(x, y, 0) :
                  x \in ((-RENDER_ZONE_SIZE - 1) * ChunkEdge)..
                            ((RENDER_ZONE_SIZE + 2) * ChunkEdge - 1),
                  y \in {-1, 0}}
MarkCorners == {ChunkPos(x, y, 0) :
                   x \in {-RENDER_ZONE_SIZE - 1, -RENDER_ZONE_SIZE, -1, 0, 3,
                          RENDER_ZONE_SIZE - 1, RENDER_ZONE_SIZE},
                   y \in {-1, 0}}

\* the owner of an UpdatedRenderZones calls one of its methods
mark_chunk_call(chunk) ==
    /\ sim.pc = "idle"
    /\ budget.edits > 0
    /\ budget' = [budget EXCEPT !.edits = @ - 1]
    /\ updated_render_zones' = mark_chunk(updated_render_zones, chunk)
    /\ sim' = [IdleSim EXCEPT !.ret = [op |-> "mark_chunk", chunk |-> chunk]]
    /\ UNCHANGED <<chunks, shard_lock, TASK_QUEUE, COMPLETED_TASKS, chunk_load_jobs,
                   chunk_unload_jobs, worker, overflow_checks, submitted, pushed, calls,
                   players>>

mark_block_call(block) ==
    /\ sim.pc = "idle"
    /\ budget.edits > 0
    /\ budget' = [budget EXCEPT !.edits = @ - 1]
    /\ updated_render_zones' = mark_block(updated_render_zones, block)
    /\ sim' = [IdleSim EXCEPT !.ret = [op |-> "mark_block", block |-> block]]
    /\ UNCHANGED <<chunks, shard_lock, TASK_QUEUE, COMPLETED_TASKS, chunk_load_jobs,
                   chunk_unload_jobs, worker, overflow_checks, submitted, pushed, calls,
                   players>>

mark_chunk_zone_call(min_chunk, max_chunk) ==
    /\ sim.pc = "idle"
    /\ budget.edits > 0
    /\ budget' = [budget EXCEPT !.edits = @ - 1]
    /\ updated_render_zones' = mark_chunk_zone(updated_render_zones, min_chunk, max_chunk)
    /\ sim' = [IdleSim EXCEPT !.ret = [op |-> "mark_chunk_zone", min_chunk |-> min_chunk,
                                      max_chunk |-> max_chunk]]
    /\ UNCHANGED <<chunks, shard_lock, TASK_QUEUE, COMPLETED_TASKS, chunk_load_jobs,
                   chunk_unload_jobs, worker, overflow_checks, submitted, pushed, calls,
                   players>>

\* UpdatedRenderZones::new
MarkInit ==
    /\ chunks = <<>>
    /\ shard_lock = [s \in Shards |-> NoLock]
    /\ TASK_QUEUE = <<>>
    /\ COMPLETED_TASKS = <<>>
    /\ chunk_load_jobs = <<>>
    /\ chunk_unload_jobs = <<>>
    /\ updated_render_zones = {}
    /\ worker = [w \in Workers |-> IdleWorker]
    /\ sim = IdleSim
    /\ overflow_checks = "unknown"
    /\ budget = [calls |-> 0, polls |-> 0, edits |-> MaxMarks, follow |-> FALSE,
                 workers |-> {}]
    /\ submitted = EmptyBag
    /\ pushed = EmptyBag
    /\ calls = <<>>
    /\ players = <<>>

MarkNext ==
    \/ \E chunk \in MarkChunks : mark_chunk_call(chunk)
    \/ \E block \in MarkBlocks : mark_block_call(block)
    \/ \E min_chunk \in MarkCorners, max_chunk \in MarkCorners :
          mark_chunk_zone_call(min_chunk, [max_chunk EXCEPT ![3] = 1])

MarkSpec == MarkInit /\ [][MarkNext]_vars

(* ----------------------- coordinate conversions ----------------------- *)

\* every i32 on the first axis, the values around zero and the two ends of
\* i32 on the second
ConvertAxis == I32_MIN..I32_MAX
ConvertChunks == {ChunkPos(x, y, 0) : x \in ConvertAxis, y \in {I32_MIN, -1, 0, I32_MAX}}
ConvertBlocks == {BlockPos(x, y, 0) : x \in ConvertAxis, y \in {I32_MIN, -1, 0, I32_MAX}}

\* the build modes an i32 operation can run under: left open until the
\* first overflow
I32Modes(overflow) ==
    IF overflow /\ overflow_checks = "unknown" THEN {"on", "off"} ELSE {overflow_checks}

\* let block_pos: BlockPos = chunk_pos.into(); let back: ChunkPos = block_pos.into();
round_trip_call(chunk_pos) ==
    LET block_pos == as_block_pos(chunk_pos)
        overflow == as_block_pos_overflows(chunk_pos) \/ as_chunk_pos_overflows(block_pos)
    IN  /\ sim.pc = "idle"
        /\ budget.edits > 0
        /\ budget' = [budget EXCEPT !.edits = @ - 1]
        /\ \E checks \in I32Modes(overflow) :
              /\ overflow_checks' = checks
              /\ sim' = IF overflow /\ checks = "on"
                         THEN [IdleSim EXCEPT !.pc = "panicked",
                                              !.ret = [op |-> "round_trip",
                                                       chunk_pos |-> chunk_pos]]
                         ELSE [IdleSim EXCEPT !.ret = [op |-> "round_trip",
                                                       chunk_pos |-> chunk_pos,
                                                       block_pos |-> block_pos,
                                                       back |-> as_chunk_pos(block_pos)]]
        /\ UNCHANGED <<chunks, shard_lock, TASK_QUEUE, COMPLETED_TASKS, chunk_load_jobs,
                       chunk_unload_jobs, updated_render_zones, worker, submitted, pushed,
                       calls, players>>

\* let chunk_pos: ChunkPos = block_pos.into();
into_chunk_pos_call(block_pos) ==
    LET overflow == as_chunk_pos_overflows(block_pos) IN
    /\ sim.pc = "idle"
    /\ budget.edits > 0
    /\ budget' = [budget EXCEPT !.edits = @ - 1]
    /\ \E checks \in I32Modes(overflow) :
          /\ overflow_checks' = checks
          /\ sim' = IF overflow /\ checks = "on"
                     THEN [IdleSim EXCEPT !.pc = "panicked",
                                          !.ret = [op |-> "into_chunk_pos",
                                                   block_pos |-> block_pos]]
                     ELSE [IdleSim EXCEPT !.ret = [op |-> "into_chunk_pos",
                                                   block_pos |-> block_pos,
                                                   chunk_pos |-> as_chunk_pos(block_pos)]]
    /\ UNCHANGED <<chunks, shard_lock, TASK_QUEUE, COMPLETED_TASKS, chunk_load_jobs,
                   chunk_unload_jobs, updated_render_zones, worker, submitted, pushed,
                   calls, players>>

\* BlockPos::as_chunk_block_pos: (self.into(), self.as_chunk_local())
as_chunk_block_pos_call(block_pos) ==
    LET overflow == as_chunk_pos_overflows(block_pos) IN
    /\ sim.pc = "idle"
    /\ budget.edits > 0
    /\ budget' = [budget EXCEPT !.edits = @ - 1]
    /\ \E checks \in I32Modes(overflow) :
          /\ overflow_checks' = checks
          /\ sim' = IF overflow /\ checks = "on"
                     THEN [IdleSim EXCEPT !.pc = "panicked",
                                          !.ret = [op |-> "as_chunk_block_pos",
                                                   block_pos |-> block_pos]]
                     ELSE [IdleSim EXCEPT !.ret = [op |-> "as_chunk_block_pos",
                                                   block_pos |-> block_pos,
                                                   chunk_pos |-> as_chunk_pos(block_pos),
                                                   local |-> as_chunk_local(block_pos)]]
    /\ UNCHANGED <<chunks, shard_lock, TASK_QUEUE, COMPLETED_TASKS, chunk_load_jobs,
                   chunk_unload_jobs, updated_render_zones, worker, submitted, pushed,
                   calls, players>>

ConvertInit ==
    /\ chunks = <<>>
    /\ shard_lock = [s \in Shards |-> NoLock]
    /\ TASK_QUEUE = <<>>
    /\ COMPLETED_TASKS = <<>>
    /\ chunk_load_jobs = <<>>
    /\ chunk_unload_jobs = <<>>
    /\ updated_render_zones = {}
    /\ worker = [w \in Workers |-> IdleWorker]
    /\ sim = IdleSim
    /\ overflow_checks = "unknown"
    /\ budget = [calls |-> 0, polls |-> 0, edits |-> MaxConverts, follow |-> FALSE,
                 workers |-> {}]
    /\ submitted = EmptyBag
    /\ pushed = EmptyBag
    /\ calls = <<>>
    /\ players = <<>>

ConvertNext ==
    \/ \E chunk_pos \in ConvertChunks : round_trip_call(chunk_pos)
    \/ \E block_pos \in ConvertBlocks : into_chunk_pos_call(block_pos)
    \/ \E block_pos \in ConvertBlocks : as_chunk_block_pos_call(block_pos)

ConvertSpec == ConvertInit /\ [][ConvertNext]_vars

(* ----------------------------- ray casting ---------------------------- *)

\* Position::new: the components in units of 1 / SubBlock
Position(x, y, z) == <<x, y, z>>

\* f32::floor, then as i32
floor(elem) == IF elem >= 0 THEN RustDiv(elem, SubBlock)
               ELSE -RustDiv((-elem) + (SubBlock - 1), SubBlock)

\* impl From<Position> for BlockPos: position.0.floor().as_ivec3()
Position_as_block_pos(position) == [i \in 1..3 |-> floor(position[i])]

\* Vec3::normalize of a vector along one axis: each component over the
\* length, which is the absolute value of the one component that is not 0
normalize(ray) ==
    LET length == CHOOSE l \in {ray[i] : i \in 1..3} \cup {-ray[i] : i \in 1..3} :
                      l > 0 /\ \A i \in 1..3 : ray[i] \in {0, l, -l}
    IN  [i \in 1..3 |-> RustDiv(ray[i], length)]

\* f32::signum of a component that is not -0.0: 1.0 for +0.0 too
signum(elem) == IF elem >= 0 THEN 1 ELSE -1

\* an f32 time: a multiple of 1 / SubBlock, or f32::INFINITY
Finite(time) == [inf |-> FALSE, at |-> time]
INFINITY == [inf |-> TRUE, at |-> 0]
\* a < b on f32
time_lt(a, b) == ~a.inf /\ (b.inf \/ a.at < b.at)

\* let intercept_time_interval = ray.map(..): |1.0 / elem| of a normalized
\* component
intercept_time_interval(ray) ==
    [i \in 1..3 |-> IF ray[i] # 0 THEN Finite(SubBlock) ELSE INFINITY]

\* let ray_offset = ray_start.map(..): f32's % keeps the dividend's sign
ray_offset(ray_start) ==
    [i \in 1..3 |-> IF ray_start[i] > 0 THEN RustRem(ray_start[i], SubBlock)
                    ELSE SubBlock + RustRem(ray_start[i], SubBlock)]

\* let mut next_intercept_time = vec3_map!(..), for a normalized ray along
\* one axis
next_intercept_time(ray, offset) ==
    [i \in 1..3 |-> IF ray[i] > 0 THEN Finite(SubBlock - offset[i])
                    ELSE IF ray[i] < 0 THEN Finite(offset[i])
                    ELSE INFINITY]

\* the axis the loop of block_raycast advances on
raycast_axis(time) ==
    IF time_lt(time[1], time[2]) /\ time_lt(time[1], time[3]) THEN 1
    ELSE IF time_lt(time[2], time[3]) THEN 2
    ELSE 3

LengthExceeds_Inclusive(offset, max_length) ==
    \/ max_length < 0
    \/ SubBlock * SubBlock * (offset[1] * offset[1] + offset[2] * offset[2]
                                + offset[3] * offset[3]) >= max_length * max_length

\* (block_pos - block_start_pos).length() > max_length, max_length in units
\* of 1 / SubBlock
LengthExceeds(offset, max_length) ==
    \/ max_length < 0
    \/ SubBlock * SubBlock * (offset[1] * offset[1] + offset[2] * offset[2]
                                + offset[3] * offset[3]) > max_length * max_length

\* World::with_block(block, |b| b.is_air())
World_with_block_is_air(map, block) ==
    LET chunk_position == as_chunk_pos(block)
        local == as_chunk_local(block)
    IN  IF chunk_position \in DOMAIN map
        THEN [kind |-> "Some",
              value |-> is_air(Chunk_get_block(map[chunk_position].blocks,
                                               as_chunk_local(local)))]
        ELSE [kind |-> "None"]

\* World::block_raycast up to its loop
block_raycast_call(ray_start, ray, max_length) ==
    LET normal == normalize(ray) IN
    /\ sim.pc = "idle"
    /\ budget.edits > 0
    /\ budget' = [budget EXCEPT !.edits = @ - 1]
    /\ sim' = [IdleSim EXCEPT
                  !.pc = "raycast",
                  !.ray = [op |-> "block_raycast", ray_start |-> ray_start, ray |-> ray,
                           max_length |-> max_length,
                           block_start_pos |-> Position_as_block_pos(ray_start),
                           block_pos |-> Position_as_block_pos(ray_start),
                           direction |-> [i \in 1..3 |-> signum(normal[i])],
                           intercept_time_interval |-> intercept_time_interval(normal),
                           next_intercept_time |->
                               next_intercept_time(normal, ray_offset(ray_start))]]
    /\ UNCHANGED <<chunks, shard_lock, TASK_QUEUE, COMPLETED_TASKS, chunk_load_jobs,
                   chunk_unload_jobs, updated_render_zones, worker, overflow_checks,
                   submitted, pushed, calls, players>>

\* one turn of block_raycast's loop: incrament_axis on the axis with the
\* nearest intercept.  with_block(..)? leaves the closure with None when the
\* chunk is not in the store, and the loop goes on.
incrament_axis ==
    LET ray == sim.ray
        axis == raycast_axis(ray.next_intercept_time)
        block_pos == [ray.block_pos EXCEPT ![axis] = @ + ray.direction[axis]]
        air == World_with_block_is_air(chunks, block_pos)
        result(value) == [op |-> "block_raycast", ray_start |-> ray.ray_start,
                          ray |-> ray.ray, max_length |-> ray.max_length, value |-> value]
    IN
    /\ sim.pc = "raycast"
    /\ CanRead(as_chunk_pos(block_pos))
    /\ sim' = IF LengthExceeds(Sub(block_pos, ray.block_start_pos), ray.max_length)
              THEN [IdleSim EXCEPT !.ret = result([kind |-> "None"])]
              ELSE IF air.kind = "None"
              THEN [sim EXCEPT !.ray.block_pos = block_pos]
              ELSE IF ~air.value
              THEN [IdleSim EXCEPT !.ret = result([kind |-> "Some", block |-> block_pos])]
              ELSE [sim EXCEPT !.ray.block_pos = block_pos,
                               !.ray.next_intercept_time[axis] =
                                   Finite(@.at + ray.intercept_time_interval[axis].at)]
    /\ UNCHANGED <<chunks, shard_lock, TASK_QUEUE, COMPLETED_TASKS, chunk_load_jobs,
                   chunk_unload_jobs, updated_render_zones, worker, overflow_checks, budget,
                   submitted, pushed, calls, players>>

\* the blocks dug before the rays are cast: some of the first row along x,
\* or every stone block of the two chunks of that row but (3, 0, 0)
RayRow == {BlockPos(x, 0, 0) : x \in 0..(2 * ChunkEdge - 1)}
RayDigs ==
    (SUBSET RayRow)
    \cup {{BlockPos(x, 0, z) : x \in 0..(2 * ChunkEdge - 1), z \in 0..(ChunkEdge - 1)}
            \ {BlockPos(2 * ChunkEdge - 1, 0, 0)}}

RECURSIVE Dig(_, _)
\* set_block(block, Air) for every block of a set
Dig(map, blocks) ==
    IF blocks = {} THEN map
    ELSE LET block == CHOOSE b \in blocks : TRUE
         IN  Dig([map EXCEPT ![as_chunk_pos(block)].blocks =
                                 Chunk_set_block(@, as_chunk_local(block), "Air")],
                 blocks \ {block})

\* the stores rays are cast in: the two chunks of the row, or the chunks
\* around them too, loaded and then dug; or the first and the third chunk
\* of the row (two load_chunks calls), the first one dug
RayStores ==
    {Dig(LoadedStore(box[1], box[2]), digs) :
        box \in {<<ChunkPos(0, 0, 0), ChunkPos(2, 1, 1)>>,
                 <<ChunkPos(-1, -1, -1), ChunkPos(2, 1, 1)>>},
        digs \in RayDigs}
    \cup {Dig(LoadedStore(ChunkPos(0, 0, 0), ChunkPos(1, 1, 1))
                @@ LoadedStore(ChunkPos(2, 0, 0), ChunkPos(3, 1, 1)), digs) :
            digs \in SUBSET {BlockPos(x, 0, 0) : x \in 0..(ChunkEdge - 1)}}

\* the ray starts: along the row at mid height, in the block above, and
\* below and behind the origin
RayStarts ==
    {Position(x, SubBlock \div 2, SubBlock \div 2) : x \in (-SubBlock)..(2 * SubBlock)}
    \cup {Position(SubBlock \div 2, y, SubBlock \div 2) : y \in {SubBlock + 1, -1}}
    \cup {Position(SubBlock \div 2, SubBlock \div 2, -1)}
\* the rays: along every axis both ways, not all of length 1
RayDirections ==
    {<<1, 0, 0>>, <<-1, 0, 0>>, <<0, 1, 0>>, <<0, -1, 0>>, <<0, 0, 1>>, <<0, 0, -1>>,
     <<2, 0, 0>>}
\* max_length: 0, one block, half a block short of three, three, and up
\* to the first block of the third chunk
RayLengths == {0, SubBlock, 3 * SubBlock - 1, 3 * SubBlock, 2 * ChunkEdge * SubBlock}

RayInit ==
    /\ chunks \in RayStores
    /\ shard_lock = [s \in Shards |-> NoLock]
    /\ TASK_QUEUE = <<>>
    /\ COMPLETED_TASKS = <<>>
    /\ chunk_load_jobs = <<>>
    /\ chunk_unload_jobs = <<>>
    /\ updated_render_zones = {}
    /\ worker = [w \in Workers |-> IdleWorker]
    /\ sim = IdleSim
    /\ overflow_checks = "unknown"
    /\ budget = [calls |-> 0, polls |-> 0, edits |-> MaxRays, follow |-> FALSE,
                 workers |-> {}]
    /\ submitted = EmptyBag
    /\ pushed = EmptyBag
    /\ calls = <<>>
    /\ players = <<>>

RayNext ==
    \/ \E ray_start \in RayStarts, ray \in RayDirections, max_length \in RayLengths :
          block_raycast_call(ray_start, ray, max_length)
    \/ incrament_axis

RaySpec == RayInit /\ [][RayNext]_vars

(* ------------------------------ players ------------------------------- *)

\* IVec3::axis
axis_vec(axis) == [i \in 1..3 |-> IF i = axis THEN 1 ELSE 0]
\* only_methods!: axis_only, all_but_axis
axis_only(v, axis) == [i \in 1..3 |-> IF i = axis THEN v[i] ELSE 0]
all_but_axis(v, axis) == [i \in 1..3 |-> IF i = axis THEN 0 ELSE v[i]]

\* BlockFace::from_axis
from_axis(axis, positive) ==
    IF positive THEN <<"XPos", "YPos", "ZPos">>[axis] ELSE <<"XNeg", "YNeg", "ZNeg">>[axis]

\* the only player
PlayerId == 0

\* Player::new
Player_new ==
    [position |-> BlockPos(0, 0, 0),
     render_distance |-> ChunkPos(RenderDistance, RenderDistance, RenderDistance)]

\* Player::chunk_position
chunk_position_of(player) == as_chunk_pos(player.position)

\* a load_chunks / unload_chunks call, as load_axis makes it
Call(op, min_chunk, max_chunk, mesh_face_task) ==
    [op |-> op, min_chunk |-> min_chunk, max_chunk |-> max_chunk,
     mesh_face_task |-> mesh_face_task]

load_axis_NegLoadsBorder(player, chunk_position, axis) ==
    LET player_chunk == chunk_position_of(player)
        render_zone_corner == Sub(player_chunk, player.render_distance)
        render_zone_length == [i \in 1..3 |-> 2 * player.render_distance[i]]
        pos_min_chunk == Add(render_zone_corner, axis_only(render_zone_length, axis))
        pos_max_chunk == Add(Add(render_zone_corner, render_zone_length), axis_vec(axis))
        neg_min_chunk == Sub(render_zone_corner, axis_vec(axis))
        neg_max_chunk == Add(render_zone_corner, all_but_axis(render_zone_length, axis))
    IN  IF chunk_position[axis] = player_chunk[axis] THEN <<>>
        ELSE IF chunk_position[axis] = player_chunk[axis] + 1
        THEN <<Call("unload", Add(neg_min_chunk, axis_vec(axis)),
                    Add(neg_max_chunk, axis_vec(axis)), NoMeshFaceTask),
               Call("load", pos_min_chunk, pos_max_chunk,
                    ChunkMeshFaceData(Sub(pos_min_chunk, axis_vec(axis)),
                                      Sub(pos_max_chunk, axis_vec(axis)),
                                      from_axis(axis, TRUE)))>>
        ELSE IF chunk_position[axis] = player_chunk[axis] - 1
        THEN <<Call("unload", Sub(pos_min_chunk, axis_vec(axis)),
                    Sub(pos_max_chunk, axis_vec(axis)), NoMeshFaceTask),
               Call("load", Add(neg_min_chunk, axis_vec(axis)),
                    Add(neg_max_chunk, axis_vec(axis)),
                    ChunkMeshFaceData(Add(neg_min_chunk, axis_vec(axis)),
                                      Add(neg_max_chunk, axis_vec(axis)),
                                      from_axis(axis, FALSE)))>>
        ELSE <<Call("todo", player_chunk, chunk_position, NoMeshFaceTask)>>

\* the closure load_axis of set_player_position: the calls it makes for an
\* axis, or the todo!() it runs into
load_axis(player, chunk_position, axis) ==
    LET player_chunk == chunk_position_of(player)
        render_zone_corner == Sub(player_chunk, player.render_distance)
        render_zone_length == [i \in 1..3 |-> 2 * player.render_distance[i]]
        pos_min_chunk == Add(render_zone_corner, axis_only(render_zone_length, axis))
        pos_max_chunk == Add(Add(render_zone_corner, render_zone_length), axis_vec(axis))
        neg_min_chunk == Sub(render_zone_corner, axis_vec(axis))
        neg_max_chunk == Add(render_zone_corner, all_but_axis(render_zone_length, axis))
    IN  IF chunk_position[axis] = player_chunk[axis] THEN <<>>
        ELSE IF chunk_position[axis] = player_chunk[axis] + 1
        THEN <<Call("unload", Add(neg_min_chunk, axis_vec(axis)),
                    Add(neg_max_chunk, axis_vec(axis)), NoMeshFaceTask),
               Call("load", pos_min_chunk, pos_max_chunk,
                    ChunkMeshFaceData(Sub(pos_min_chunk, axis_vec(axis)),
                                      Sub(pos_max_chunk, axis_vec(axis)),
                                      from_axis(axis, TRUE)))>>
        ELSE IF chunk_position[axis] = player_chunk[axis] - 1
        THEN <<Call("unload", Sub(pos_min_chunk, axis_vec(axis)),
                    Sub(pos_max_chunk, axis_vec(axis)), NoMeshFaceTask),
               Call("load", neg_min_chunk, neg_max_chunk,
                    ChunkMeshFaceData(Add(neg_min_chunk, axis_vec(axis)),
                                      Add(neg_max_chunk, axis_vec(axis)),
                                      from_axis(axis, FALSE)))>>
        ELSE <<Call("todo", player_chunk, chunk_position, NoMeshFaceTask)>>

\* load_axis(Axis::X); load_axis(Axis::Y); load_axis(Axis::Z): the calls
\* made, up to and with the first todo!()
load_axes(player, chunk_position) ==
    LET all == load_axis(player, chunk_position, 1) \o load_axis(player, chunk_position, 2)
                   \o load_axis(player, chunk_position, 3)
        todos == {i \in DOMAIN all : all[i].op = "todo"}
    IN  IF todos = {} THEN all
        ELSE SubSeq(all, 1, CHOOSE i \in todos : \A j \in todos : i <= j)

\* the job World::load_chunks / World::unload_chunks registers for a call
\* (both push onto chunk_load_jobs) and the tasks it runs
CallJobs(call) ==
    IF call.op = "load"
    THEN <<ChunkLoadJob(call.min_chunk, call.max_chunk,
                        (call.max_chunk[1] - call.min_chunk[1])
                            * (call.max_chunk[2] - call.min_chunk[2])
                            * (call.max_chunk[3] - call.min_chunk[3]),
                        call.mesh_face_task)>>
    ELSE IF call.op = "unload"
    THEN <<ChunkLoadJob(call.min_chunk, call.max_chunk, 1, call.mesh_face_task)>>
    ELSE <<>>

CallTasks(call) ==
    LET box == BoxChunks(call.min_chunk, call.max_chunk) IN
    IF call.op = "load" THEN [i \in DOMAIN box |-> GenerateChunk(box[i])]
    ELSE IF call.op = "unload" THEN <<UnloadChunks(call.min_chunk, call.max_chunk)>>
    ELSE <<>>

RECURSIVE Flatten(_)
Flatten(seqs) == IF seqs = <<>> THEN <<>> ELSE Head(seqs) \o Flatten(Tail(seqs))

\* World::set_player_position: the whole call, under players.write().  The
\* position is given by its block (Position, floored)
set_player_position(player_id, position) ==
    LET player == players[player_id]
        chunk_position == as_chunk_pos(position)
        made == load_axes(player, chunk_position)
        panics == \E i \in DOMAIN made : made[i].op = "todo"
        out == chunk_position # chunk_position_of(player)
    IN
    /\ sim.pc = "idle"
    /\ budget.moves > 0
    /\ player_id \in DOMAIN players
    /\ budget' = [budget EXCEPT !.moves = @ - 1]
    /\ chunk_load_jobs' = chunk_load_jobs \o Flatten([i \in DOMAIN made |-> CallJobs(made[i])])
    /\ RunTasks(Flatten([i \in DOMAIN made |-> CallTasks(made[i])]))
    /\ calls' = calls \o [i \in DOMAIN made |->
                              [op |-> made[i].op, min_chunk |-> made[i].min_chunk,
                               max_chunk |-> made[i].max_chunk,
                               mesh_face_task |-> made[i].mesh_face_task,
                               settled |-> Settled]]
    /\ players' = IF panics THEN players
                  ELSE [players EXCEPT ![player_id].position = position]
    /\ sim' = IF panics
              THEN [IdleSim EXCEPT !.pc = "panicked", !.block = position,
                                   !.ret = [op |-> "set_player_position", from |-> player]]
              ELSE [IdleSim EXCEPT !.block = position,
                                   !.ret = [op |-> "set_player_position", from |-> player,
                                            out |-> out]]
    /\ UNCHANGED <<chunks, shard_lock, COMPLETED_TASKS, chunk_unload_jobs,
                   updated_render_zones, worker, overflow_checks, pushed>>

\* the moves of the player's chunk position a call is made with: one chunk
\* along an axis, one chunk on two axes, further than one chunk
AxisMoves == {ChunkPos(1, 0, 0), ChunkPos(-1, 0, 0), ChunkPos(0, 1, 0), ChunkPos(0, -1, 0),
              ChunkPos(0, 0, 1), ChunkPos(0, 0, -1)}
DiagonalMoves == {ChunkPos(1, 1, 0), ChunkPos(0, -1, 1)}
FarMoves == {ChunkPos(2, 0, 0), ChunkPos(1, 2, 0), ChunkPos(0, 0, -2)}

\* the runs explored, each with the moves allowed at every number of calls
\* left: one call of any kind and the polls that follow it, or calls back
\* and forth across one chunk boundary along x and one poll
PlayerBudgets ==
    {[calls |-> 0, polls |-> MaxMovePolls, edits |-> 0, follow |-> TRUE, workers |-> {"w1"},
      moves |-> 1, by |-> [m \in 1..1 |-> AxisMoves \cup DiagonalMoves \cup FarMoves]],
     [calls |-> 0, polls |-> 1, edits |-> 0, follow |-> TRUE, workers |-> {"w1"},
      moves |-> MaxMoves,
      by |-> [m \in 1..MaxMoves |-> IF (MaxMoves - m) % 2 = 0 THEN {ChunkPos(1, 0, 0)}
                                                             ELSE {ChunkPos(-1, 0, 0)}]],
     [calls |-> 0, polls |-> 0, edits |-> 0, follow |-> TRUE, workers |-> Workers,
      moves |-> MaxRapidMoves,
      by |-> [m \in 1..MaxRapidMoves |-> IF (MaxRapidMoves - m) % 2 = 0
                                         THEN {ChunkPos(1, 0, 0)}
                                         ELSE {ChunkPos(-1, 0, 0)}]]}

\* the world once World::connect has been called, every task of its
\* load_chunks has been executed and polled, and the client has consumed
\* the dirty zones; the histories start here
PlayerInit ==
    /\ players = [id \in {PlayerId} |-> Player_new]
    /\ chunks = MeshedStore(Sub(chunk_position_of(Player_new), Player_new.render_distance),
                            Add(chunk_position_of(Player_new), Player_new.render_distance))
    /\ shard_lock = [s \in Shards |-> NoLock]
    /\ TASK_QUEUE = <<>>
    /\ COMPLETED_TASKS = <<>>
    /\ chunk_load_jobs = <<>>
    /\ chunk_unload_jobs = <<>>
    /\ updated_render_zones = {}
    /\ worker = [w \in Workers |-> IdleWorker]
    /\ sim = IdleSim
    /\ overflow_checks = "unknown"
    /\ budget \in PlayerBudgets
    /\ submitted = EmptyBag
    /\ pushed = EmptyBag
    /\ calls = <<>>

PlayerNext ==
    \/ \E w \in Workers : WorkerStep(w)
    \/ \E by \in UNION {budget.by[m] : m \in {budget.moves} \cap DOMAIN budget.by} :
          set_player_position(PlayerId,
                              as_block_pos(Add(chunk_position_of(players[PlayerId]), by)))
    \/ PollStep
    \/ PollReturn

PlayerSpec == PlayerInit /\ [][PlayerNext]_vars

(* ------------------------------- Next --------------------------------- *)

SimStep ==
    \/ \E box \in Boxes, follow \in FollowUps : load_chunks(box[1], box[2], follow)
    \/ \E box \in Boxes, follow \in FollowUps : unload_chunks(box[1], box[2], follow)
    \/ PollStep
    \/ PollReturn
    \/ \E block_pos \in Blocks, block \in EditBlocks : set_block(block_pos, block)
    \/ SetBlockGet
    \/ \E block \in Blocks : mesh_update_adjacent(block)
    \/ AdjacentOwnGet
    \/ AdjacentGet
    \/ AdjacentLock
    \/ AdjacentBuild
    \/ \E render_zone \in Zones : render_zone_mesh(render_zone)
    \/ ZoneGet

Next == (\E w \in Workers : WorkerStep(w)) \/ SimStep

Spec == Init /\ [][Next]_vars

(* ------------------------------ properties ---------------------------- *)

InBox(chunk, min_chunk, max_chunk) == chunk \in SeqToSet(BoxChunks(min_chunk, max_chunk))

\* the number of executions of a task that have ended with its push
Executed(task) == CopiesIn(task, pushed)

RECURSIVE SumExecuted(_)
SumExecuted(tasks) ==
    IF tasks = {} THEN 0
    ELSE LET task == CHOOSE t \in tasks : TRUE
         IN  Executed(task) + SumExecuted(tasks \ {task})

\* GenerateChunk executions for a chunk, UnloadChunks executions whose box
\* contains it
Generations(chunk) == Executed(GenerateChunk(chunk))
Unloads(chunk) ==
    SumExecuted({UnloadChunks(box[1], box[2]) : box \in {b \in Boxes : InBox(chunk, b[1], b[2])}})

IsCall(call, op, min_chunk, max_chunk) ==
    call.op = op /\ call.min_chunk = min_chunk /\ call.max_chunk = max_chunk

\* the run so far is load_chunks(min, max) on the empty store, then
\* unload_chunks(min, max) called once every task had been executed
LoadThenUnload(min_chunk, max_chunk) ==
    /\ Len(calls) = 2
    /\ IsCall(calls[1], "load", min_chunk, max_chunk) /\ calls[1].settled
    /\ IsCall(calls[2], "unload", min_chunk, max_chunk) /\ calls[2].settled

\* C1: after load_chunks(min, max) on the empty store and, once every
\* GenerateChunk has been executed, unload_chunks(min, max), every
\* coordinate of [min, max) is absent as soon as the UnloadChunks task has
\* been executed
C1_UnloadAfterLoadEmpties ==
    \A box \in Boxes :
        (LoadThenUnload(box[1], box[2]) /\ Executed(UnloadChunks(box[1], box[2])) >= 1)
            => \A chunk \in SeqToSet(BoxChunks(box[1], box[2])) : chunk \notin DOMAIN chunks

C1_Witness ==
    /\ LoadThenUnload(ChunkPos(0, 0, 0), ChunkPos(MaxX + 1, 1, 1))
    /\ Executed(UnloadChunks(ChunkPos(0, 0, 0), ChunkPos(MaxX + 1, 1, 1))) = 1
    /\ \A chunk \in Coords : Generations(chunk) = 1
    /\ chunks = <<>>

\* C2: the load count is never decremented while it is zero: no worker is
\* about to run dec_load_count on a count of zero, none has panicked on
\* 0 - 1, and no stored count has wrapped below zero
C2_NeverDecrementedAtZero ==
    /\ \A w \in Workers :
          worker[w].pc = "unload_dec" => chunks[worker[w].target].load_count # 0
    /\ \A w \in Workers : worker[w].pc # "panicked"
    /\ \A chunk \in DOMAIN chunks : chunks[chunk].load_count >= 0

\* C3: whenever no task is queued or running, a chunk is present exactly
\* when its GenerateChunk executions outnumber the UnloadChunks executions
\* over it, and its load count is the difference
C3_CountIsGenerationsMinusUnloads ==
    Settled =>
        \A chunk \in Coords :
            /\ chunk \in DOMAIN chunks <=> Generations(chunk) - Unloads(chunk) >= 1
            /\ chunk \in DOMAIN chunks =>
                   chunks[chunk].load_count = Generations(chunk) - Unloads(chunk)

\* C4: when GenerateChunk(c) has run its inc_load_count, c is present; if
\* it was absent it holds the generator's blocks and count 1, if it was
\* present with count n its blocks are the same and its count is n + 1
C4_GenerateRaisesByOne ==
    \A w \in Workers :
        worker[w].pc = "gen_push" =>
            LET chunk == worker[w].task.chunk
                pre == worker[w].pre
            IN  /\ chunk \in DOMAIN chunks
                /\ IF pre.present
                   THEN /\ chunks[chunk].load_count = pre.load_count + 1
                        /\ chunks[chunk].blocks = pre.blocks
                   ELSE /\ chunks[chunk].load_count = 1
                        /\ chunks[chunk].blocks = generate_chunk(chunk).blocks

C4_Witness ==
    \E w, v \in Workers :
        /\ worker[w].pc = "gen_push" /\ worker[v].pc = "gen_push"
        /\ worker[w].pre.present /\ worker[w].pre.load_count = 1
        /\ chunks[worker[w].task.chunk].load_count = 2
        /\ ~worker[v].pre.present
        /\ chunks[worker[v].task.chunk].load_count = 1

\* C5: an UnloadChunks task that ran with no other thread at work has, when
\* it is about to be pushed, lowered by one the count of every chunk of its
\* box that was present, removed exactly those whose count reached zero,
\* and left every chunk outside the box as it was
C5_UnloadFrame ==
    \A w \in Workers :
        (worker[w].task.kind = "UnloadChunks" /\ worker[w].alone) =>
            /\ worker[w].pc # "panicked"
            /\ worker[w].pc = "push" =>
                  LET before == worker[w].snap
                      task == worker[w].task
                  IN  \A chunk \in Coords :
                          IF InBox(chunk, task.min_chunk, task.max_chunk)
                          THEN IF chunk \in DOMAIN before /\ before[chunk].load_count - 1 # 0
                               THEN /\ chunk \in DOMAIN chunks
                                    /\ chunks[chunk] =
                                           [before[chunk] EXCEPT !.load_count = @ - 1]
                               ELSE chunk \notin DOMAIN chunks
                          ELSE /\ chunk \in DOMAIN chunks <=> chunk \in DOMAIN before
                               /\ chunk \in DOMAIN chunks => chunks[chunk] = before[chunk]

C5_Witness ==
    \E w \in Workers :
        /\ worker[w].task = UnloadChunks(ChunkPos(0, 0, 0), ChunkPos(MaxX + 1, 1, 1))
        /\ worker[w].alone
        /\ worker[w].pc = "push"
        /\ DOMAIN worker[w].snap = Coords
        /\ worker[w].snap[ChunkPos(0, 0, 0)].load_count = 2
        /\ worker[w].snap[ChunkPos(MaxX, 0, 0)].load_count = 1
        /\ DOMAIN chunks = Coords \ {ChunkPos(MaxX, 0, 0)}

\* the number of copies of a task in the completion queue
Queued(task) == Cardinality({i \in DOMAIN COMPLETED_TASKS : COMPLETED_TASKS[i] = task})

\* C6: every task on the completion queue was given to run_task before,
\* with the same variant and fields, and no task has been pushed more often
\* than it was submitted
C6_CompletedWereSubmitted ==
    /\ \A i \in DOMAIN COMPLETED_TASKS :
          Queued(COMPLETED_TASKS[i]) <= CopiesIn(COMPLETED_TASKS[i], submitted)
    /\ \A task \in BagToSet(pushed) : Executed(task) <= CopiesIn(task, submitted)

C6_Witness ==
    \E i, j \in DOMAIN COMPLETED_TASKS :
        /\ i # j
        /\ COMPLETED_TASKS[i] = COMPLETED_TASKS[j]
        /\ CopiesIn(COMPLETED_TASKS[i], submitted) = 2
        /\ Executed(COMPLETED_TASKS[i]) = 2

\* the number of workers that hold a task they have not pushed yet
InHand(task) ==
    Cardinality({w \in Workers : /\ worker[w].task = task
                                 /\ worker[w].pc \notin {"idle", "gen_drop", "panicked"}})

InTaskQueue(task) == Cardinality({i \in DOMAIN TASK_QUEUE : TASK_QUEUE[i] = task})

\* C7: no submitted task is dropped: each is still queued, or in the hands
\* of a worker that is executing it, or has been pushed as completed
C7_NoTaskDropped ==
    \A task \in BagToSet(submitted) :
        CopiesIn(task, submitted) = InTaskQueue(task) + InHand(task) + Executed(task)

\* the side effects of the task a worker holds are all in the store: the
\* chunk of a GenerateChunk is present with its count raised by one, every
\* position of an UnloadChunks or ChunkMeshFace box has been dealt with,
\* the chunk of a ChunkMesh has been rebuilt or found absent; and the
\* worker is inside no mesh cache
EffectsApplied(w) ==
    LET task == worker[w].task
        count_before == IF worker[w].pre.present THEN worker[w].pre.load_count ELSE 0
    IN  /\ \A chunk \in DOMAIN chunks : chunks[chunk].mesh_writer # w
        /\ worker[w].slices = <<>>
        /\ CASE task.kind = "GenerateChunk" ->
                    /\ task.chunk \in DOMAIN chunks
                    /\ chunks[task.chunk].load_count = count_before + 1
             [] task.kind \in {"UnloadChunks", "ChunkMeshFace"} ->
                    worker[w].idx > Len(BoxChunks(task.min_chunk, task.max_chunk))
             [] task.kind = "ChunkMesh" ->
                    worker[w].idx + worker[w].skipped > 1

\* C8: a step that pushes a task onto the completion queue is taken by a
\* worker that has applied all of the task's side effects on the store
C8_PushAfterEffects ==
    [][\A w \in Workers :
          (pushed' # pushed /\ worker'[w] # worker[w]) => EffectsApplied(w)]_vars

C8_Witness ==
    \E w \in Workers :
        /\ worker[w].pc = "idle"
        /\ Executed(UnloadChunks(ChunkPos(0, 0, 0), ChunkPos(MaxX + 1, 1, 1))) = 1
        /\ \A chunk \in Coords : Generations(chunk) = 1
        /\ \E i \in DOMAIN COMPLETED_TASKS : COMPLETED_TASKS[i].kind = "UnloadChunks"
        /\ chunks = <<>>
        /\ TASK_QUEUE = <<>>

\* the simulation thread cannot go on until a worker lets go of a shard of
\* the chunk store
SimWaitsForShard ==
    /\ sim.pc \in {"set_block", "adjacent_own", "adjacent_get", "zone_get"}
    /\ shard_lock[ShardOf(sim.target)].writer \in Workers

\* the simulation thread cannot go on until a worker lets go of a chunk's
\* mesh cache
SimWaitsForMesh ==
    \/ /\ sim.pc = "adjacent_lock"
       /\ chunks[sim.target].mesh_writer \in Workers
    \/ ZoneWaitsForMesh

\* C9 as stated: the simulation thread never waits for a lock that a worker
\* holds, in none of its methods
C9_SimNeverWaits == ~SimWaitsForShard /\ ~SimWaitsForMesh

\* C9: poll_completed_tasks can always take its next step, and
\* render_zone_mesh can take its next step whenever no worker write-locks
\* the shard of the chunk it is at: a write-locked mesh cache is passed
\* over, not waited for
C9_PollAndMeshReadNeverWait ==
    /\ sim.pc = "poll" => ENABLED (PollStep \/ PollReturn)
    /\ (sim.pc = "zone_get" /\ ~SimWaitsForShard) => ENABLED ZoneGet

C9_Witness ==
    /\ sim.pc = "zone_get"
    /\ ~SimWaitsForShard
    /\ sim.target \in DOMAIN chunks
    /\ chunks[sim.target].mesh_writer \in Workers

\* C10: a ChunkMesh, ChunkMeshFace or UnloadChunks task that has passed
\* over an absent chunk goes on to its push: its worker does not panic
C10_AbsentSkippedThenPushed ==
    \A w \in Workers : worker[w].skipped > 0 => worker[w].pc # "panicked"

\* the GenerateChunk completions of the chunks of a box that
\* poll_completed_tasks has drained: those pushed and no longer queued
RECURSIVE DrainedGenerations(_)
DrainedGenerations(box_chunks) ==
    IF box_chunks = {} THEN 0
    ELSE LET chunk == CHOOSE c \in box_chunks : TRUE
         IN  Executed(GenerateChunk(chunk)) - Queued(GenerateChunk(chunk))
                 + DrainedGenerations(box_chunks \ {chunk})

\* the number of ChunkMesh / ChunkMeshFace tasks given to run_task
MeshTasksSubmitted ==
    LET mesh_tasks == {task \in BagToSet(submitted) :
                          task.kind \in {"ChunkMesh", "ChunkMeshFace"}}
    IN  BagCardinality([task \in mesh_tasks |-> submitted[task]])

\* C11: while the only call made is one load_chunks over a box of N
\* chunks, the job stays registered with remaining = N - (drained
\* GenerateChunk completions) and no mesh task is submitted before the
\* N-th completion is drained; from then on the job is gone, each chunk of
\* the box has exactly one ChunkMesh task submitted, and the follow-up, if
\* any, has been submitted exactly once
C11_SingleLoadJobAccounting ==
    (Len(calls) = 1 /\ calls[1].op = "load") =>
        LET call == calls[1]
            box == BoxChunks(call.min_chunk, call.max_chunk)
            N == Len(box)
            drained == DrainedGenerations(SeqToSet(box))
            follow == call.mesh_face_task
        IN  IF drained < N
            THEN /\ chunk_load_jobs =
                        <<ChunkLoadJob(call.min_chunk, call.max_chunk, N - drained, follow)>>
                 /\ MeshTasksSubmitted = 0
            ELSE /\ drained = N
                 /\ chunk_load_jobs = <<>>
                 /\ \A chunk \in SeqToSet(box) : CopiesIn(ChunkMesh(chunk), submitted) = 1
                 /\ MeshTasksSubmitted =
                        N + (IF follow.kind = "Some" THEN 1 ELSE 0)
                 /\ follow.kind = "Some" => CopiesIn(into_task(follow), submitted) = 1

C11_Witness ==
    /\ Len(calls) = 1
    /\ IsCall(calls[1], "load", ChunkPos(0, 0, 0), ChunkPos(MaxX + 1, 1, 1))
    /\ calls[1].mesh_face_task.kind = "Some"
    /\ DrainedGenerations(Coords) = MaxX + 1
    /\ chunk_load_jobs = <<>>
    /\ CopiesIn(into_task(calls[1].mesh_face_task), submitted) = 1

\* C12: once the completion of the UnloadChunks task of an unload_chunks
\* call (here: the only call made) has been drained, the job the call
\* registered is in neither job list and its follow-up, if one was given,
\* has been submitted exactly once
C12_UnloadJobFinished ==
    (/\ Len(calls) = 1
     /\ calls[1].op = "unload"
     /\ Executed(UnloadChunks(calls[1].min_chunk, calls[1].max_chunk)) = 1
     /\ Queued(UnloadChunks(calls[1].min_chunk, calls[1].max_chunk)) = 0) =>
        LET call == calls[1]
            job == ChunkLoadJob(call.min_chunk, call.max_chunk, 1, call.mesh_face_task)
        IN  /\ \A i \in DOMAIN chunk_load_jobs : chunk_load_jobs[i] # job
            /\ \A i \in DOMAIN chunk_unload_jobs : chunk_unload_jobs[i] # job
            /\ call.mesh_face_task.kind = "Some" =>
                   CopiesIn(into_task(call.mesh_face_task), submitted) = 1

\* C18: the step of set_block that looks the chunk up returns false and
\* leaves the store as it is when the chunk of the position is absent;
\* otherwise it returns true and the block at the position becomes the
\* given block, every other block of every chunk, every load count, the
\* set of loaded chunks and both job lists staying as they were
C18_SetBlockFrame ==
    [][(sim.pc = "set_block" /\ sim' # sim) =>
          LET chunk_pos == as_chunk_pos(sim.block)
              local == as_chunk_local(sim.block)
              found == chunk_pos \in DOMAIN chunks
          IN  /\ sim'.ret.op = "set_block" /\ sim'.ret.ok = found
              /\ chunk_load_jobs' = chunk_load_jobs
              /\ chunk_unload_jobs' = chunk_unload_jobs
              /\ DOMAIN chunks' = DOMAIN chunks
              /\ \A chunk \in DOMAIN chunks :
                     chunks'[chunk].load_count = chunks[chunk].load_count
              /\ ~found => chunks' = chunks
              /\ found =>
                     \A chunk \in DOMAIN chunks, block_pos \in LocalPositions :
                         Chunk_get_block(chunks'[chunk].blocks, block_pos) =
                             IF chunk = chunk_pos /\ block_pos = local THEN sim.value
                             ELSE Chunk_get_block(chunks[chunk].blocks, block_pos)]_vars

C18_Witness ==
    /\ sim.ret.op = "set_block" /\ sim.ret.ok
    /\ DOMAIN chunks = Coords
    /\ \E chunk \in DOMAIN chunks :
          /\ DOMAIN chunks[chunk].blocks.set = {BlockPos(ChunkEdge - 1, 0, 0)}
          /\ Chunk_get_block(chunks[chunk].blocks, BlockPos(ChunkEdge - 1, 0, 0)) = "Air"

\* some axis of the coordinate is outside [0, CHUNK_SIZE)
OutsideChunk(block_pos) == \E i \in 1..3 : block_pos[i] \notin 0..(ChunkEdge - 1)

\* C19: a step taken inside get_block, get_block_mut or set_block called
\* with a coordinate that is not chunk-local is the failing assertion: the
\* thread panics, and the store is as it was: no guard on the blocks has
\* been taken, no block written, and no block has been handed back
C19_NonLocalAbortsBeforeLock ==
    [][(sim.accessor \in Accessors /\ OutsideChunk(sim.block)) =>
          /\ sim.pc = "access_assert"
          /\ sim'.pc = "panicked"
          /\ sim'.ret = NoRet
          /\ chunks' = chunks
          /\ \A chunk \in DOMAIN chunks : chunks[chunk].blocks_guard = "none"]_vars

C19_Witness ==
    /\ sim.pc = "panicked"
    /\ sim.accessor = "get_block_mut"
    /\ sim.block = BlockPos(0, ChunkEdge, 0)
    /\ \A chunk \in DOMAIN chunks : chunks[chunk].blocks_guard = "none"
    /\ chunks = LoadedStore(ChunkPos(0, 0, 0), ChunkPos(1, 1, 1))

\* C20: whenever every block edit made so far has had its
\* mesh_update_adjacent, every cached face-slice of every loaded chunk is
\* empty or is the quad list that rebuilding the slice now would give
C20_SlicesEmptyOrCurrent ==
    (sim.pc = "idle" /\ sim.ret.op # "set_block") =>
        \A chunk \in DOMAIN chunks, slice \in SeqToSet(Slices) :
            \/ chunks[chunk].chunk_mesh[slice] = <<>>
            \/ chunks[chunk].chunk_mesh[slice] =
                   mesh_update_inner(chunks, chunk, slice[1], slice[2])

\* the chunks of a player's window [p - rd, p + rd)
Window(p, rd) ==
    {ChunkPos(x, y, z) : x \in (p[1] - rd[1])..(p[1] + rd[1] - 1),
                         y \in (p[2] - rd[2])..(p[2] + rd[2] - 1),
                         z \in (p[3] - rd[3])..(p[3] + rd[3] - 1)}

\* q is p moved by one chunk along exactly one axis
OneAxisStep(p, q) ==
    \E a \in 1..3 : /\ q[a] - p[a] \in {-1, 1}
                    /\ \A i \in (1..3) \ {a} : q[i] = p[i]

\* C14: when the only call made, from the settled store that holds the
\* window of the player once each, is a set_player_position one chunk
\* along one axis, it has made one unload_chunks call for the chunks of the
\* old window that are not in the new one and then one load_chunks call
\* for the chunks of the new window that are not in the old one, each task
\* of them submitted once; and once every task has been executed the store
\* holds exactly the chunks of the new window, each with load count 1
C14_OneAxisMoveShiftsWindow ==
    LET old == chunk_position_of(Player_new)
        new == chunk_position_of(players[PlayerId])
        rd == players[PlayerId].render_distance
    IN  (Len(calls) = 2 /\ OneAxisStep(old, new)) =>
            LET left == Window(old, rd) \ Window(new, rd)
                entered == Window(new, rd) \ Window(old, rd)
            IN  /\ calls[1].op = "unload" /\ calls[1].settled
                /\ SeqToSet(BoxChunks(calls[1].min_chunk, calls[1].max_chunk)) = left
                /\ CopiesIn(UnloadChunks(calls[1].min_chunk, calls[1].max_chunk),
                            submitted) = 1
                /\ calls[2].op = "load"
                /\ SeqToSet(BoxChunks(calls[2].min_chunk, calls[2].max_chunk)) = entered
                /\ \A chunk \in entered : CopiesIn(GenerateChunk(chunk), submitted) = 1
                /\ \A task \in BagToSet(submitted) :
                       /\ task.kind = "UnloadChunks" =>
                              task = UnloadChunks(calls[1].min_chunk, calls[1].max_chunk)
                       /\ task.kind = "GenerateChunk" => task.chunk \in entered
                /\ Settled =>
                       /\ DOMAIN chunks = Window(new, rd)
                       /\ \A chunk \in DOMAIN chunks : chunks[chunk].load_count = 1

C14_Witness ==
    /\ Len(calls) = 2
    /\ chunk_position_of(players[PlayerId]) = ChunkPos(0, -1, 0)
    /\ calls[2].op = "load"
    /\ Settled
    /\ sim.pc = "idle"
    /\ ChunkPos(0, -2, 0) \in DOMAIN chunks
    /\ ChunkPos(0, 0, 0) \notin DOMAIN chunks

\* the corners of the render zones around the origin, and the chunks of a
\* zone: RENDER_ZONE_SIZE chunks along each axis from its corner
ZoneCorners ==
    LET along == {v \in (-2 * RENDER_ZONE_SIZE)..(2 * RENDER_ZONE_SIZE) :
                     v % RENDER_ZONE_SIZE = 0}
    IN  {ChunkPos(x, y, z) : x \in along, y \in along, z \in along}

InZone(chunk, zone) ==
    \A i \in 1..3 : zone[i] <= chunk[i] /\ chunk[i] < zone[i] + RENDER_ZONE_SIZE

\* the zones a completion stands for: that of the chunk for ChunkMesh,
\* those with a chunk in [min, max) for ChunkMeshFace and UnloadChunks,
\* none for GenerateChunk
ImpliedZones(task) ==
    CASE task.kind = "ChunkMesh" -> {zone \in ZoneCorners : InZone(task.chunk, zone)}
      [] task.kind \in {"ChunkMeshFace", "UnloadChunks"} ->
            {zone \in ZoneCorners :
                \E chunk \in SeqToSet(BoxChunks(task.min_chunk, task.max_chunk)) :
                    InZone(chunk, zone)}
      [] task.kind = "GenerateChunk" -> {}

\* C13: each step of poll_completed_tasks that takes a completion off the
\* queue takes the oldest one and adds to the dirty zones exactly the
\* zones that completion stands for; no other step changes the dirty
\* zones; and poll_completed_tasks returns only when the queue is empty
C13_PollMarksImpliedZones ==
    [][/\ Len(COMPLETED_TASKS') < Len(COMPLETED_TASKS) =>
              /\ COMPLETED_TASKS' = Tail(COMPLETED_TASKS)
              /\ sim'.pc = "poll"
              /\ updated_render_zones' =
                     updated_render_zones \cup ImpliedZones(Head(COMPLETED_TASKS))
       /\ Len(COMPLETED_TASKS') >= Len(COMPLETED_TASKS) =>
              updated_render_zones' = updated_render_zones
       /\ (sim.pc = "poll" /\ sim'.pc # "poll") => COMPLETED_TASKS = <<>>]_vars

C13_Witness ==
    /\ Len(calls) = 2
    /\ calls[2].mesh_face_task.kind = "Some"
    /\ Executed(into_task(calls[2].mesh_face_task)) = 1
    /\ Queued(into_task(calls[2].mesh_face_task)) = 0
    /\ \A chunk \in SeqToSet(BoxChunks(calls[2].min_chunk, calls[2].max_chunk)) :
           Executed(ChunkMesh(chunk)) = 1 /\ Queued(ChunkMesh(chunk)) = 0
    /\ sim.pc = "idle"
    /\ COMPLETED_TASKS = <<>>
    /\ Cardinality(ImpliedZones(into_task(calls[2].mesh_face_task))) = 4
    /\ updated_render_zones =
           ImpliedZones(into_task(calls[2].mesh_face_task))
               \cup ImpliedZones(UnloadChunks(calls[1].min_chunk, calls[1].max_chunk))

\* the call just made moved the player's chunk by more than one on some axis
FarCall(from, to) == \E i \in 1..3 : to[i] - from[i] \notin {-1, 0, 1}

\* C16: a set_player_position call whose chunk is more than one chunk from
\* the player's on some axis panics, and leaves both job lists, the task
\* queue, the tasks submitted and the players as they were
C16_FarMoveLeavesWorldAlone ==
    [][(/\ sim'.ret.op = "set_player_position"
        /\ sim' # sim
        /\ FarCall(chunk_position_of(players[PlayerId]), as_chunk_pos(sim'.block))) =>
           /\ sim'.pc = "panicked"
           /\ chunk_load_jobs' = chunk_load_jobs
           /\ chunk_unload_jobs' = chunk_unload_jobs
           /\ TASK_QUEUE' = TASK_QUEUE
           /\ submitted' = submitted
           /\ players' = players]_vars

\* the call just made moved the player's chunk by one on two axes or more
DiagonalCall(from, to) ==
    /\ \A i \in 1..3 : to[i] - from[i] \in {-1, 0, 1}
    /\ Cardinality({i \in 1..3 : to[i] # from[i]}) >= 2

\* C17: a set_player_position call whose chunk is one chunk from the
\* player's on two axes ends in an error and registers no load or unload
\* job and submits no task
C17_DiagonalMoveIsError ==
    [][(/\ sim'.ret.op = "set_player_position"
        /\ sim' # sim
        /\ DiagonalCall(chunk_position_of(players[PlayerId]), as_chunk_pos(sim'.block))) =>
           /\ sim'.pc = "panicked"
           /\ chunk_load_jobs' = chunk_load_jobs
           /\ chunk_unload_jobs' = chunk_unload_jobs
           /\ submitted' = submitted]_vars

\* the load_chunks calls made so far that carry a given follow-up
LoadCallsWith(follow) ==
    {i \in DOMAIN calls : calls[i].op = "load" /\ calls[i].mesh_face_task = follow}

\* C15: while every set_player_position call made was of one chunk per
\* axis (here: back and forth along x), the ChunkMeshFace follow-up of each load_chunks call is never
\* submitted more often than calls were made with it, is submitted only
\* when the GenerateChunk completion of every chunk of the new slab has
\* been drained, and has been submitted once for each call made with it
\* when poll_completed_tasks has returned with every GenerateChunk
\* completion of the new slab drained
C15_FollowUpOncePerMove ==
    (\A i \in DOMAIN calls : calls[i].op # "todo") =>
        \A i \in DOMAIN calls :
            (calls[i].op = "load" /\ calls[i].mesh_face_task.kind = "Some") =>
                LET follow == calls[i].mesh_face_task
                    slab == SeqToSet(BoxChunks(calls[i].min_chunk, calls[i].max_chunk))
                    moves == Cardinality(LoadCallsWith(follow))
                    times == CopiesIn(into_task(follow), submitted)
                IN  /\ times <= moves
                    /\ \A chunk \in slab :
                           Executed(GenerateChunk(chunk)) - Queued(GenerateChunk(chunk))
                               >= times
                    /\ (/\ sim.pc = "idle"
                        /\ \A chunk \in slab :
                               Executed(GenerateChunk(chunk)) - Queued(GenerateChunk(chunk))
                                   = CopiesIn(GenerateChunk(chunk), submitted)) =>
                           times = moves

\* the face-slices of loaded chunks that an edit of a block can change: on
\* each face, the slice the block is in, and the slice of the block behind
\* it (the neighbour whose side of that face now looks at the block), in the
\* chunk that neighbour is in
AdjacentSlices(block) ==
    LET own == {<<as_chunk_pos(block),
                  <<face, get_face_component(as_chunk_local(block), face)>>>> :
                    face \in SeqToSet(Faces)}
        behind(face) == Sub(block, block_pos_offset(face))
        next == {<<as_chunk_pos(behind(face)),
                   <<face, get_face_component(as_chunk_local(behind(face)), face)>>>> :
                     face \in SeqToSet(Faces)}
    IN  {slice \in own \cup next : slice[1] \in DOMAIN chunks}

\* the simulation thread is inside mesh_update_adjacent
InAdjacent == sim.pc \in {"adjacent_own", "adjacent_get", "adjacent_lock", "adjacent_build"}

\* the cached face-slices of loaded chunks that a step changes
ChangedSlices ==
    {slice \in (DOMAIN chunks) \X SeqToSet(Slices) :
        \/ slice[1] \notin DOMAIN chunks'
        \/ chunks'[slice[1]].chunk_mesh[slice[2]] # chunks[slice[1]].chunk_mesh[slice[2]]}

\* C21 as stated: mesh_update_adjacent(block) changes no cached slice but
\* the six of the block's own chunk at the block's index and boundary
\* slices of neighbouring chunks, seven at most
C21_SevenSlices ==
    [][InAdjacent =>
          \A slice \in ChangedSlices :
              \/ slice \in {<<as_chunk_pos(sim.block),
                              <<face, get_face_component(as_chunk_local(sim.block), face)>>>> :
                                face \in SeqToSet(Faces)}
              \/ slice[1] # as_chunk_pos(sim.block)]_vars

\* C21: mesh_update_adjacent(block) rebuilds, on each of the six faces, the
\* slice of the block's chunk at the block's index and the slice of the
\* block behind the block on that face, in the chunk that block is in
\* (twelve slices, the block's own chunk or a neighbouring one), and no
\* other slice; chunks that are absent are passed over; when it returns
\* each of these slices is the quad list of a rebuild, and it has marked
\* the render zone of each chunk it rebuilt a slice of and no other zone
C21_AdjacentSlicesRebuilt ==
    [][InAdjacent =>
          LET touched == {get_render_zone_of_chunk(slice[1]) :
                             slice \in AdjacentSlices(sim.block)}
          IN  /\ DOMAIN chunks' = DOMAIN chunks
              /\ ChangedSlices \subseteq AdjacentSlices(sim.block)
              /\ updated_render_zones \subseteq updated_render_zones'
              /\ updated_render_zones' \subseteq updated_render_zones \cup touched
              /\ sim'.pc = "idle" =>
                     /\ sim'.ret = [op |-> "mesh_update_adjacent"]
                     /\ touched \subseteq updated_render_zones'
                     /\ \A slice \in AdjacentSlices(sim.block) :
                            chunks'[slice[1]].chunk_mesh[slice[2]] =
                                mesh_update_inner(chunks', slice[1], slice[2][1],
                                                  slice[2][2])]_vars

\* a block at the border of two chunks in different render zones has been
\* dug and mesh_update_adjacent has returned: slices of both chunks hold
\* quads of the rebuild and both zones are marked
C21_Witness ==
    /\ sim.pc = "idle"
    /\ sim.ret.op = "mesh_update_adjacent"
    /\ DOMAIN chunks = {ChunkPos(-1, 0, 0), ChunkPos(0, 0, 0)}
    /\ DOMAIN chunks[ChunkPos(0, 0, 0)].blocks.set = {BlockPos(0, 0, 0)}
    /\ DOMAIN chunks[ChunkPos(-1, 0, 0)].blocks.set = {}
    /\ updated_render_zones = {ChunkPos(-RENDER_ZONE_SIZE, 0, 0), ChunkPos(0, 0, 0)}
    /\ chunks[ChunkPos(-1, 0, 0)].chunk_mesh[<<"XPos", ChunkEdge - 1>>] # <<>>
    /\ chunks[ChunkPos(0, 0, 0)].chunk_mesh[<<"XNeg", 1>>] # <<>>

\* C22: of the mesh_update_inner calls a thread has made in a row on a
\* store whose blocks did not change, with whatever the calls before left
\* in its visit map, any two for the same face and index gave the same
\* quad list, quad for quad in the same order
C22_RemeshIdempotent ==
    \A i \in DOMAIN sim.out, j \in DOMAIN sim.out :
        (/\ sim.out[i].chunk = sim.out[j].chunk
         /\ sim.out[i].face = sim.out[j].face
         /\ sim.out[i].index = sim.out[j].index) =>
            sim.out[i].quads = sim.out[j].quads

\* a slice rebuilt, then another with different quads, then the first again
C22_Witness ==
    /\ Len(sim.out) = 3
    /\ sim.out[1].face = "YPos" /\ sim.out[1].index = 0
    /\ sim.out[3].face = "YPos" /\ sim.out[3].index = 0
    /\ sim.out[2].face = "XNeg"
    /\ Len(sim.out[1].quads) >= 2
    /\ sim.out[2].quads # <<>>
    /\ sim.out[2].quads # sim.out[1].quads
    /\ sim.visit_map # VisitedBlockMap_new
    /\ chunks[ChunkPos(0, 0, 0)].chunk_mesh[<<"YPos", 0>>] = sim.out[3].quads

\* every block of the chunk is of one solid kind
SolidChunk(chunk) ==
    \A block_pos \in LocalPositions :
        Chunk_get_block(chunks[chunk].blocks, block_pos) = "Stone"

\* C23: when the store holds one chunk, all of one solid block kind, each
\* mesh_update_inner call on a YPos slice of it gives exactly one quad,
\* from one corner of the slice to the opposite one
C23_SolidTopOneQuad ==
    \A i \in DOMAIN sim.out :
        (/\ DOMAIN chunks = {sim.out[i].chunk}
         /\ SolidChunk(sim.out[i].chunk)
         /\ sim.out[i].face = "YPos") =>
            LET corner == as_block_pos(sim.out[i].chunk)
                quads == sim.out[i].quads
            IN  /\ Len(quads) = 1
                /\ quads[1].from = Add(corner, BlockPos(0, sim.out[i].index, 0))
                /\ quads[1].to =
                       Add(corner, BlockPos(ChunkEdge - 1, sim.out[i].index, ChunkEdge - 1))

\* floor(a / b) for b > 0: the q with q * b <= a < (q + 1) * b
FloorDiv(a, b) ==
    CHOOSE q \in (IF a < 0 THEN a ELSE -a)..(IF a < 0 THEN -a ELSE a) :
        q * b <= a /\ a < (q + 1) * b

\* whether the block one step out of the face from a position of the slice
\* last rebuilt is there (in a loaded chunk) and is not air
Occludes(x, y) ==
    LET call == sim.out[Len(sim.out)]
        at == Add(Add(get_block_pos(call.face, call.index, x, y), block_pos_offset(call.face)),
                  as_block_pos(call.chunk))
        owner == [i \in 1..3 |-> FloorDiv(at[i], ChunkEdge)]
        local == [i \in 1..3 |-> at[i] - owner[i] * ChunkEdge]
    IN  /\ owner \in DOMAIN chunks
        /\ Chunk_get_block(chunks[owner].blocks, local) # "Air"

\* the contributors of the vertex (x, y) that occlude, of tl, tr, bl, br
Occluders(x, y) ==
    {c \in {"tl", "tr", "bl", "br"} :
        \/ c = "tl" /\ Occludes(x - 1, y - 1)
        \/ c = "tr" /\ Occludes(x, y - 1)
        \/ c = "bl" /\ Occludes(x - 1, y)
        \/ c = "br" /\ Occludes(x, y)}

\* C24 as stated: after a mesh_update_inner call the level of a vertex is
\* 3 when its occluders are two diagonally opposite contributors, and the
\* number of its occluders in every other case
C24_CornerRuleElseCount ==
    sim.out # <<>> =>
        \A x \in 0..ChunkEdge, y \in 0..ChunkEdge :
            sim.visit_map.vertex_occlusion[x, y] =
                IF Occluders(x, y) \in {{"tl", "br"}, {"tr", "bl"}} THEN 3
                ELSE Cardinality(Occluders(x, y))

\* C24: after a mesh_update_inner call the level of a vertex is 3 when its
\* occluders are two diagonally opposite contributors, 3 as well when all
\* four contributors occlude, and the number of its occluders in every
\* other case
C24_CornerRule ==
    sim.out # <<>> =>
        \A x \in 0..ChunkEdge, y \in 0..ChunkEdge :
            sim.visit_map.vertex_occlusion[x, y] =
                IF Occluders(x, y) \in {{"tl", "br"}, {"tr", "bl"}} THEN 3
                ELSE IF Cardinality(Occluders(x, y)) = 4 THEN 3
                ELSE Cardinality(Occluders(x, y))

\* the YNeg slice above two dug blocks on a diagonal has been rebuilt: the
\* vertex between them has two diagonally opposite occluders and level 3
C24_Witness ==
    /\ sim.out # <<>>
    /\ sim.out[Len(sim.out)].face = "YNeg"
    /\ sim.out[Len(sim.out)].index = 1
    /\ sim.out[Len(sim.out)].chunk = ChunkPos(0, 0, 0)
    /\ Occluders(1, 1) = {"tr", "bl"}
    /\ sim.visit_map.vertex_occlusion[1, 1] = 3
    /\ Cardinality(Occluders(1, 0)) = 1
    /\ sim.visit_map.vertex_occlusion[1, 0] = 1

\* C25: each step of render_zone_mesh at a chunk position leaves the store
\* alone and appends to the quads gathered so far the mesh cache of the
\* chunk as it is now, when the chunk is loaded and no thread holds its
\* mesh cache for writing; it appends nothing, and goes on without an
\* error, when the cache is write-locked or the chunk is absent; what the
\* call returns is what it has gathered
C25_ZoneMeshGathersUnlocked ==
    [][(sim.pc = "zone_get" /\ sim' # sim) =>
          LET gathered == IF sim'.pc = "idle" THEN sim'.ret.out ELSE sim'.out
              readable == /\ sim.target \in DOMAIN chunks
                          /\ chunks[sim.target].mesh_writer = NoThread
          IN  /\ chunks' = chunks
              /\ sim'.pc \in {"zone_get", "idle"}
              /\ sim'.pc = "idle" => sim'.ret.op = "render_zone_mesh"
              /\ gathered = IF readable
                            THEN Append(sim.out, [chunk |-> sim.target,
                                                  mesh |-> chunks[sim.target].chunk_mesh])
                            ELSE sim.out]_vars

\* render_zone_mesh has returned without the quads of a loaded chunk whose
\* mesh cache a worker is still rebuilding
C25_Witness ==
    /\ sim.pc = "idle"
    /\ sim.ret.op = "render_zone_mesh"
    /\ \E chunk \in DOMAIN chunks :
          /\ chunks[chunk].mesh_writer \in Workers
          /\ \A i \in DOMAIN sim.ret.out : sim.ret.out[i].chunk # chunk
    /\ \E i \in DOMAIN sim.ret.out :
          \E slice \in SeqToSet(Slices) : sim.ret.out[i].mesh[slice] # <<>>

\* a chunk coordinate floored, axis by axis, to a multiple of
\* RENDER_ZONE_SIZE
FlooredZone(chunk) ==
    [i \in 1..3 |-> RENDER_ZONE_SIZE * FloorDiv(chunk[i], RENDER_ZONE_SIZE)]

\* C26: a mark_chunk(c) or mark_block(b) call leaves the dirty set as it
\* was but for one coordinate it inserts: the chunk coordinate (for
\* mark_block that of the chunk of b) floored axis by axis to a multiple of
\* RENDER_ZONE_SIZE; and every member of the dirty set, after any call, is
\* a multiple of RENDER_ZONE_SIZE on every axis
C26_MarkInsertsFlooredZone ==
    [][budget'.edits < budget.edits =>
          /\ sim'.ret.op = "mark_chunk" =>
                 updated_render_zones' =
                     updated_render_zones \cup {FlooredZone(sim'.ret.chunk)}
          /\ sim'.ret.op = "mark_block" =>
                 updated_render_zones' =
                     updated_render_zones \cup
                         {FlooredZone([i \in 1..3 |->
                                          FloorDiv(sim'.ret.block[i], ChunkEdge)])}
          /\ \A zone \in updated_render_zones' :
                 \A i \in 1..3 : zone[i] % RENDER_ZONE_SIZE = 0]_vars

\* mark_block on a block of chunk (9, 0, 0) after mark_chunk((-1, -1, 0))
C26_Witness ==
    /\ sim.ret.op = "mark_block"
    /\ sim.ret.block = BlockPos((RENDER_ZONE_SIZE + 1) * ChunkEdge + 1, 0, 0)
    /\ updated_render_zones = {ChunkPos(RENDER_ZONE_SIZE, 0, 0),
                               ChunkPos(-RENDER_ZONE_SIZE, -RENDER_ZONE_SIZE, 0)}

\* C27: a mark_chunk_zone(min, max) call leaves the dirty set as it was
\* but for the coordinates it inserts: those of the render zones that hold
\* a chunk of [min, max), and none when the box is empty
C27_MarkZoneInsertsIntersecting ==
    [][(budget'.edits < budget.edits /\ sim'.ret.op = "mark_chunk_zone") =>
          updated_render_zones' =
              updated_render_zones \cup
                  {FlooredZone(chunk) :
                      chunk \in SeqToSet(BoxChunks(sim'.ret.min_chunk,
                                                   sim'.ret.max_chunk))}]_vars

\* C28 (as stated): converting a chunk coordinate to a block coordinate and
\* back yields the chunk coordinate, negative components included, and the
\* chunk coordinate of a block coordinate is the floor of the block
\* coordinate divided by the chunk edge on every axis.
C28_RoundTripAndFloor ==
    /\ sim.ret.op = "round_trip" =>
          /\ sim.pc # "panicked"
          /\ sim.ret.back = sim.ret.chunk_pos
    /\ sim.ret.op = "into_chunk_pos" =>
          /\ sim.pc # "panicked"
          /\ \A i \in 1..3 : sim.ret.chunk_pos[i] = FloorDiv(sim.ret.block_pos[i], ChunkEdge)

\* C29 (as stated): the chunk-local coordinate of a block position lies
\* in [0, chunk edge) on every axis, and its chunk coordinate times the
\* chunk edge plus the local coordinate is the block position again,
\* negative components included.
C29_LocalInRangeAndRecomposes ==
    sim.ret.op = "as_chunk_block_pos" =>
        /\ sim.pc # "panicked"
        /\ \A i \in 1..3 :
              /\ sim.ret.local[i] \in 0..(ChunkEdge - 1)
              /\ sim.ret.chunk_pos[i] * ChunkEdge + sim.ret.local[i] = sim.ret.block_pos[i]

\* the cell k blocks from the starting cell of the last ray, along the ray
RayCell(k) ==
    [i \in 1..3 |-> FloorDiv(sim.ret.ray_start[i], SubBlock)
                      + k * (IF sim.ret.ray[i] > 0 THEN 1
                             ELSE IF sim.ret.ray[i] < 0 THEN -1 ELSE 0)]
CellChunk(cell) == [i \in 1..3 |-> FloorDiv(cell[i], ChunkEdge)]
CellLoaded(cell) == CellChunk(cell) \in DOMAIN chunks
CellSolid(cell) ==
    /\ CellLoaded(cell)
    /\ Chunk_get_block(chunks[CellChunk(cell)].blocks,
                       [i \in 1..3 |-> cell[i] - ChunkEdge * CellChunk(cell)[i]]) # "Air"
\* the one solid block of the store that is air everywhere else
RaySolid == BlockPos(2 * ChunkEdge - 1, 0, 0)
AirButRaySolid ==
    \A chunk \in DOMAIN chunks, local \in LocalPositions :
        LET cell == [i \in 1..3 |-> chunk[i] * ChunkEdge + local[i]]
        IN  CellSolid(cell) <=> cell = RaySolid
RayOrigin == Position(SubBlock \div 2, SubBlock \div 2, SubBlock \div 2)

\* C30: block_raycast along an axis returns the first block that is not
\* air among the cells after the starting cell, when the cells up to it lie
\* in loaded chunks and the block is no more than max_length blocks from
\* the starting cell (block coordinate to block coordinate); so from the
\* middle of block (0, 0, 0) along +X, in a store that is air but for the
\* block RaySolid on that row, with max_length reaching it, it returns
\* RaySolid.
C30_RaycastFirstSolid ==
    sim.ret.op = "block_raycast" =>
        /\ \A k \in 1..(sim.ret.max_length \div SubBlock) :
              (/\ CellSolid(RayCell(k))
               /\ \A j \in 1..(k - 1) : CellLoaded(RayCell(j)) /\ ~CellSolid(RayCell(j)))
              => sim.ret.value = [kind |-> "Some", block |-> RayCell(k)]
        /\ (/\ sim.ret.ray_start = RayOrigin
            /\ sim.ret.ray \in {<<1, 0, 0>>, <<2, 0, 0>>}
            /\ AirButRaySolid
            /\ sim.ret.max_length >= SubBlock * RaySolid[1])
           => sim.ret.value = [kind |-> "Some", block |-> RaySolid]

\* a ray from RayOrigin along +X returned RaySolid in the store that is air
\* everywhere else
C30_Witness ==
    /\ sim.ret.op = "block_raycast"
    /\ sim.ret.ray_start = RayOrigin
    /\ sim.ret.ray = <<1, 0, 0>>
    /\ AirButRaySolid
    /\ sim.ret.value = [kind |-> "Some", block |-> RaySolid]

\* the cell k blocks from the starting cell is farther than max_length
CellBeyond(k) == k * SubBlock > sim.ret.max_length
\* the ray stops at cell k: a block that is not air, a chunk that is not in
\* the store, or the end of max_length
RayStops(k) == CellBeyond(k) \/ ~CellLoaded(RayCell(k)) \/ CellSolid(RayCell(k))

\* C31 (as stated): block_raycast yields no hit as soon as the next cell
\* of the ray lies in a chunk that is not in the store or farther than
\* max_length from the starting cell, and a hit only at the first cell
\* where the ray stops; it never returns a block of a chunk that is not
\* loaded or a block beyond max_length.
C31_RaycastAbortsOnMissing ==
    sim.ret.op = "block_raycast" =>
        /\ \A k \in 1..(sim.ret.max_length \div SubBlock + 1) :
              (RayStops(k) /\ \A j \in 1..(k - 1) : ~RayStops(j))
              => sim.ret.value =
                    IF CellBeyond(k) \/ ~CellLoaded(RayCell(k)) THEN [kind |-> "None"]
                    ELSE [kind |-> "Some", block |-> RayCell(k)]
        /\ sim.ret.value.kind = "Some" =>
              /\ CellLoaded(sim.ret.value.block)
              /\ \E k \in 1..(sim.ret.max_length \div SubBlock) :
                    sim.ret.value.block = RayCell(k)

\* C32 (as stated): a chunk is removed from the store only while its load
\* count is zero; in particular an UnloadChunks task that brought the count
\* to zero never removes the entry after a GenerateChunk task has counted a
\* load on it, so no entry with a load count of one or more is removed.
C32_NoCountedLoadRemoved ==
    [][\A position \in DOMAIN chunks \ DOMAIN chunks' :
          ~(chunks[position].load_count >= 1)]_vars

\* this step is the turn of poll_completed_tasks that takes a GenerateChunk
\* completion and finds jobs at zero
PollFinishes ==
    /\ COMPLETED_TASKS # <<>>
    /\ COMPLETED_TASKS' = Tail(COMPLETED_TASKS)
    /\ Head(COMPLETED_TASKS).kind = "GenerateChunk"
    /\ DrainLoadJobs(chunk_load_jobs, Head(COMPLETED_TASKS).chunk).finished # <<>>
\* the job whose mesh rebuild that turn triggers
RebuiltJob == Head(DrainLoadJobs(chunk_load_jobs, Head(COMPLETED_TASKS).chunk).finished)
OnlyLoadCalls == \A i \in DOMAIN calls : calls[i].op = "load"

\* C33 (as stated): when poll_completed_tasks finds a load job at zero and
\* triggers its mesh rebuild, a GenerateChunk task has been executed for
\* every chunk of the job's box, also with several load jobs on overlapping
\* boxes pending (only load_chunks calls have been made).
C33_RebuildAfterWholeBoxGenerated ==
    [][(PollFinishes /\ OnlyLoadCalls) =>
          \A chunk \in SeqToSet(BoxChunks(RebuiltJob.min_chunk, RebuiltJob.max_chunk)) :
              CopiesIn(GenerateChunk(chunk), pushed) >= 1]_vars

\* C34: a mesh rebuild that runs while the simulation thread calls
\* set_block on the same chunk never panics: no worker is left unwound in
\* mesh_update_inner, whatever was changed between the passes.
C34_RebuildNeverPanics ==
    \A w \in Workers : ~(worker[w].pc = "panicked" /\ worker[w].mesh.op = "mesh_update_inner")

\* a worker waits in get_block for the block grid of its chunk while the
\* writer bit is set
WaitsForBlocks(w) ==
    /\ worker[w].pc = "mesh_region"
    /\ RegionReads(worker[w].mesh)
    /\ ~CanReadBlocks(worker[w].target)

\* the simulation thread waits in blocks.write() for the read guard of w
SimWaitsFor(w) == sim.pc = "set_block_store" /\ w \in BlockReaders(sim.target)

\* C35: no reachable state has a cycle of threads each waiting for a lock
\* held by another: never does a worker wait for the block grid whose
\* writer bit the simulation thread has set while the simulation thread
\* waits for that worker's read guard.
C35_NoWaitCycle == \A w \in Workers : ~(WaitsForBlocks(w) /\ SimWaitsFor(w))


\* the mesh_update_inner call made last, and the quads it returned
LastCall == sim.out[Len(sim.out)]

\* the block of the slice last rebuilt at the position (x, y)
SliceBlock(x, y) ==
    Chunk_get_block(chunks[LastCall.chunk].blocks,
                    get_block_pos(LastCall.face, LastCall.index, x, y))

InSlice(x, y) == x \in 0..(ChunkEdge - 1) /\ y \in 0..(ChunkEdge - 1)

\* whether the block one step out of the face is in a loaded chunk
NormalLoaded(x, y) ==
    LET at == Add(Add(get_block_pos(LastCall.face, LastCall.index, x, y),
                      block_pos_offset(LastCall.face)),
                  as_block_pos(LastCall.chunk))
    IN  [i \in 1..3 |-> FloorDiv(at[i], ChunkEdge)] \in DOMAIN chunks

\* a cell is visible: its block is not air, the block one step along the
\* normal is in a loaded chunk and is translucent
CellVisible(x, y) ==
    /\ InSlice(x, y)
    /\ SliceBlock(x, y) # "Air"
    /\ NormalLoaded(x, y)
    /\ ~Occludes(x, y)

\* the position in the slice of a block of the world (get_index)
PlaneIndex(block) ==
    LET local == Sub(block, as_block_pos(LastCall.chunk)) IN
    CASE LastCall.face \in {"XPos", "XNeg"} -> <<local[2], local[3]>>
      [] LastCall.face \in {"YPos", "YNeg"} -> <<local[1], local[3]>>
      [] LastCall.face \in {"ZPos", "ZNeg"} -> <<local[1], local[2]>>

\* the cells a quad covers: those between its two corner blocks
QuadCells(quad) ==
    {<<x, y>> : x \in PlaneIndex(quad.from)[1]..PlaneIndex(quad.to)[1],
                y \in PlaneIndex(quad.from)[2]..PlaneIndex(quad.to)[2]}

\* how many quads of the slice cover a cell
Cover(x, y) ==
    Cardinality({i \in DOMAIN LastCall.quads : <<x, y>> \in QuadCells(LastCall.quads[i])})

\* C36: after mesh_update_inner on a store at rest, the cells the quads of
\* the slice cover are exactly the visible cells, each covered by exactly
\* one quad; no cell that is air, hidden, with its normal neighbour in an
\* unloaded chunk, or outside the slice is covered.
C36_QuadsCoverVisibleOnce ==
    sim.out # <<>> =>
        \A x \in 0..(2 * ChunkEdge - 1), y \in 0..(2 * ChunkEdge - 1) :
            Cover(x, y) = IF CellVisible(x, y) THEN 1 ELSE 0

\* the occlusion levels of the four corner vertices of a cell
CornerLevels(x, y) ==
    <<sim.visit_map.vertex_occlusion[x, y], sim.visit_map.vertex_occlusion[x + 1, y],
      sim.visit_map.vertex_occlusion[x, y + 1], sim.visit_map.vertex_occlusion[x + 1, y + 1]>>

\* a cell carries on the run begun at the cell `first`
Extends(first, x, y) ==
    /\ CellVisible(x, y)
    /\ SliceBlock(x, y) = SliceBlock(first[1], first[2])
    /\ CornerLevels(x, y) = CornerLevels(first[1], first[2])

\* the quad is a maximal run from its first cell along the axis `step`
MaximalRun(quad, step) ==
    LET first == PlaneIndex(quad.from)
        length == Cardinality(QuadCells(quad))
    IN  /\ QuadCells(quad) =
               {<<first[1] + k * step[1], first[2] + k * step[2]>> : k \in 0..(length - 1)}
        /\ \A cell \in QuadCells(quad) : Extends(first, cell[1], cell[2])
        /\ ~Extends(first, first[1] + length * step[1], first[2] + length * step[2])

\* C37: every quad of a rebuilt slice is a run of width 1 along one
\* in-plane axis, of cells of the kind and the corner occlusion levels of
\* its first cell, and the cell after the run on that axis is outside the
\* chunk, not visible, of another kind or of other corner levels.
C37_QuadsAreMaximalRuns ==
    sim.out # <<>> =>
        \A i \in DOMAIN LastCall.quads :
            \E step \in {<<1, 0>>, <<0, 1>>} : MaximalRun(LastCall.quads[i], step)


\* poll_completed_tasks takes a GenerateChunk completion off the queue
PollGenerate ==
    /\ COMPLETED_TASKS # <<>>
    /\ COMPLETED_TASKS' = Tail(COMPLETED_TASKS)
    /\ Head(COMPLETED_TASKS).kind = "GenerateChunk"

\* the job the first call registered, when that call is unload_chunks
UnloadJob == ChunkLoadJob(calls[1].min_chunk, calls[1].max_chunk, 1, calls[1].mesh_face_task)

\* C38: a GenerateChunk completion never decrements, completes or removes
\* a job registered by unload_chunks: after unload_chunks followed by
\* load_chunks, a pending job of the unload call is still in the list,
\* unchanged, when a GenerateChunk completion has been handled.
C38_GenerateLeavesUnloadJobs ==
    [][(/\ PollGenerate
        /\ Len(calls) = 2 /\ calls[1].op = "unload" /\ calls[2].op = "load"
        /\ \E i \in DOMAIN chunk_load_jobs : chunk_load_jobs[i] = UnloadJob) =>
            \E i \in DOMAIN chunk_load_jobs' : chunk_load_jobs'[i] = UnloadJob]_vars


\* the pending jobs the completion taken off the queue brings to zero
ZeroedJobs ==
    {i \in DOMAIN chunk_load_jobs :
        /\ contains_chunk(chunk_load_jobs[i], Head(COMPLETED_TASKS).chunk)
        /\ chunk_load_jobs[i].remaining_chunks = 1}

\* C39: every load job whose counter reaches zero gets its full mesh
\* rebuild submitted, also when one GenerateChunk completion brings several
\* jobs to zero: with load_chunks calls only, the step that handles the
\* completion submits, for each chunk, one ChunkMesh task per job at zero
\* whose box holds the chunk.
C39_EveryZeroedJobRebuilt ==
    [][(PollGenerate /\ OnlyLoadCalls) =>
          \A i \in ZeroedJobs :
              \A chunk \in SeqToSet(BoxChunks(chunk_load_jobs[i].min_chunk,
                                              chunk_load_jobs[i].max_chunk)) :
                  CopiesIn(ChunkMesh(chunk), submitted')
                      >= CopiesIn(ChunkMesh(chunk), submitted)
                           + Cardinality({j \in ZeroedJobs :
                                             contains_chunk(chunk_load_jobs[j], chunk)})]_vars


\* C40: after one-chunk moves along one axis made without waiting for
\* the tasks of earlier moves, once every submitted task has been executed
\* the store holds exactly the chunks of the player's final window, each
\* with load count 1: so it is after one step forward and one step back
\* (two unload_chunks and two load_chunks calls, the player where it began).
C40_RapidMovesSettleOnWindow ==
    LET new == chunk_position_of(players[PlayerId])
        rd == players[PlayerId].render_distance
    IN  (/\ Settled
         /\ sim.pc = "idle"
         /\ Len(calls) = 4
         /\ new = chunk_position_of(Player_new)) =>
            /\ DOMAIN chunks = Window(new, rd)
            /\ \A chunk \in DOMAIN chunks : chunks[chunk].load_count = 1


====
